---- MODULE Spec2Model ----
(***************************************************************************)
(* A model of osformat::Format (osformat.h, osformat.cc): the parser of    *)
(* the format string, the allocation of free argument numbers, the table   *)
(* of bindings, operator% and the assembly and output of the result.       *)
(*                                                                         *)
(* Strings are sequences of characters, a character is a string of length  *)
(* one, and positions are 0-based as in the code: At(s, i) is s[i] of C++. *)
(***************************************************************************)
EXTENDS Integers, Sequences, FiniteSets, TLC

(***************************************************************************)
(* Bounds of the model.                                                    *)
(***************************************************************************)
\* explicit argument numbers written in the generated formats: 1..MaxArgNum
MaxArgNum == 3
\* directives in a generated format of several directives
MaxDirectives == 2
\* operator% calls in one run
MaxFeeds == 4
\* Output() calls in one run
MaxOutputs == 1
\* pieces (a character, %%, %s) of a generated format of plain text
MaxPieces == 3
\* width in bits of the integer types the model parses numbers into
NumberBits == 6

(***************************************************************************)
(* Characters and strings.                                                 *)
(***************************************************************************)
npos == -1

At(s, i) == s[i + 1]

\* std::string::substr(from, n) / append(s, from, n)
SubStr(s, from, n) == SubSeq(s, from + 1, from + n)

\* std::string::erase(i, 1)
Erase(s, i) == SubSeq(s, 1, i) \o SubSeq(s, i + 2, Len(s))

\* std::string::find(c, from)
Find(s, c, from) ==
  LET hits == {k \in from..(Len(s) - 1) : At(s, k) = c}
  IN IF hits = {} THEN npos ELSE CHOOSE k \in hits : \A j \in hits : k <= j

DigitChars == <<"0", "1", "2", "3", "4", "5", "6", "7", "8", "9">>

\* std::isdigit
IsDigit(c) == \E d \in 1..10 : DigitChars[d] = c

\* c - '0'
DigitValue(c) == (CHOOSE d \in 1..10 : DigitChars[d] = c) - 1

IsPositiveNumber(c) == IsDigit(c) /\ c # "0"

\* Find the end of a nonnegative number in s, starting at start.
RECURSIVE EndNumber(_, _)
EndNumber(s, start) ==
  LET next == start + 1
  IN IF next = Len(s) THEN next
     ELSE IF ~IsDigit(At(s, next)) THEN next
     ELSE EndNumber(s, next)

\* end if s contains at start the expression [1-9][0-9]*\$, otherwise npos
EndArgumentNumber(s, start) ==
  IF ~IsPositiveNumber(At(s, start)) THEN npos
  ELSE LET end == EndNumber(s, start)
       IN IF end # Len(s) /\ At(s, end) = "$" THEN end + 1 ELSE npos

(***************************************************************************)
(* Error codes, flags.                                                     *)
(***************************************************************************)
ErrorCodes ==
  {"kNone", "kWriteFailed", "kFlushFailed", "kTooManyArguments",
   "kTooFewArguments", "kTooEarlyArgument", "kLocaleArgIsNoLocale",
   "kLocaleMustNotBeOutput", "kPrecisionArgIsNotNumeric",
   "kWidthArgIsNotNumeric", "kFillArgIsNotChar", "kTrailingPercentage",
   "kNumberWithoutDollar", "kNumberOverflow", "kMissingSpecifier",
   "kUnknownSpecifier", "kMissingFillCharacter"}

SyntaxErrors ==
  {"kTrailingPercentage", "kNumberWithoutDollar", "kNumberOverflow",
   "kMissingSpecifier", "kUnknownSpecifier", "kMissingFillCharacter"}

\* Format::Defines
DefinesAll == {"kLocale", "kPrecision", "kWidth", "kFill", "kArg"}

\* std::ios_base masks
adjustfield == {"left", "right", "internal"}
basefield == {"dec", "oct", "hex"}

\* ostream::setf(flags, mask) and setf(flags)
SetfMask(fl, flags, mask) == (fl \ mask) \cup (flags \cap mask)
Setf(fl, flags) == fl \cup flags

\* Format::Manip(): a fresh std::ostringstream, no extensions, nothing needed
ManipNew ==
  [fmtflags |-> {"dec", "skipws"}, fill |-> " ", width |-> 0,
   precision |-> 6, locale |-> FALSE, extensions |-> {}, need |-> {},
   str |-> <<>>]

\* Format::References
References(set_these, manip) == [set_these |-> set_these, manip |-> manip]

\* std::vector::resize
RECURSIVE Resize(_, _, _)
Resize(v, n, fillWith) ==
  IF Len(v) >= n THEN SubSeq(v, 1, n)
  ELSE Resize(Append(v, fillWith), n, fillWith)

(***************************************************************************)
(* Format::ParseNumber: result and next_result are of the integer type T,  *)
(* here of NumberBits bits: "size_type" is unsigned, "streamsize" signed   *)
(* (two's complement).                                                     *)
(***************************************************************************)
RECURSIVE Pow2(_)
Pow2(n) == IF n = 0 THEN 1 ELSE 2 * Pow2(n - 1)

Wrap(x, T) ==
  LET m == Pow2(NumberBits)
      u == x % m
  IN IF T = "streamsize" /\ u >= m \div 2 THEN u - m ELSE u

RECURSIVE ParseNumberLoop(_, _, _, _, _)
ParseNumberLoop(s, start, end, result, T) ==
  LET next == start + 1
  IN IF next = end THEN [ok |-> TRUE, number |-> result]
     ELSE LET next_result == Wrap((result * 10) + DigitValue(At(s, next)), T)
          IN IF next_result <= result THEN [ok |-> FALSE, number |-> 0]
             ELSE ParseNumberLoop(s, next, end, next_result, T)

ParseNumber(s, start, end, T) ==
  ParseNumberLoop(s, start, end, DigitValue(At(s, start)), T)

(***************************************************************************)
(* The parser. A parse state p holds text_ and the fields of Format::Parse *)
(* that ParseFormat writes, the locals of ParseFormat that outlive one     *)
(* directive (i, specified, define_queue), and error: the code passed to   *)
(* Throw, "kNone" while no error occurred. A Manip* is the position of the *)
(* Manip in format_.                                                       *)
(***************************************************************************)
ParseNew(text) ==
  [text |-> text, i |-> 0, borders |-> <<>>, format |-> <<>>, args |-> <<>>,
   specified |-> <<>>, define_queue |-> <<>>, unknown_number |-> TRUE,
   plain |-> FALSE, got_specifier |-> FALSE, error |-> "kNone"]

\* Throw(error) inside the parser; ParseFormat then returns false
ParseThrow(p, error) == [p EXCEPT !.error = error]

\* SetIndirect that keeps the last Manip of an argument number alone
SetIndirectLast(args, argnum, set_these, manip) ==
  [args EXCEPT ![argnum + 1] = <<References(set_these, manip)>>]

\* SetIndirect that makes an entry of its own for every reference
SetIndirectAppending(args, argnum, set_these, manip) ==
  [args EXCEPT ![argnum + 1] = Append(@, References(set_these, manip))]

\* Format::Parse::SetIndirect
SetIndirect(args, argnum, set_these, manip) ==
  LET args_defines == args[argnum + 1]
      found == {k \in 1..Len(args_defines) : args_defines[k].manip = manip}
  IN IF found # {}
       THEN [args EXCEPT
               ![argnum + 1][CHOOSE k \in found : \A j \in found : k <= j]
                  .set_these = @ \cup set_these]
       ELSE [args EXCEPT
               ![argnum + 1] = Append(@, References(set_these, manip))]

\* Format::HandleArgumentNumber: store argnum in specified and resize args_
HandleArgumentNumber(p, argnum) ==
  IF Len(p.specified) <= argnum
    THEN [p EXCEPT
            !.specified = [Resize(@, argnum + 1, FALSE)
                             EXCEPT ![argnum + 1] = TRUE],
            !.args = Resize(@, argnum + 1, <<>>)]
    ELSE [p EXCEPT !.specified[argnum + 1] = TRUE]

\* the argument number n was read up to end: it is stored and bound to the
\* Manip being parsed, the last of format_
BindNumber(set_these, p, end, n) ==
  IF ~n.ok THEN ParseThrow(p, "kNumberOverflow")
  ELSE [HandleArgumentNumber(p, n.number - 1) EXCEPT
          !.args = SetIndirect(@, n.number - 1, set_these, Len(p.format)),
          !.i = end]

\* SetArg that takes every digit run for an argument number and misses the $
SetArgNumberDollar(set_these, p) ==
  IF p.i = Len(p.text) THEN ParseThrow(p, "kMissingSpecifier")
  ELSE LET end == EndArgumentNumber(p.text, p.i)
       IN IF end = npos
            THEN IF IsPositiveNumber(At(p.text, p.i))
                   THEN ParseThrow(p, "kNumberWithoutDollar")
                   ELSE [p EXCEPT !.define_queue =
                           Append(@, References(set_these, Len(p.format)))]
          ELSE IF end = Len(p.text) THEN ParseThrow(p, "kMissingSpecifier")
          ELSE BindNumber(set_these, p, end,
                          ParseNumber(p.text, p.i, end - 1, "size_type"))

\* Format::SetArg behind ++(*index): p.i is at the number, if there is one
SetArgNumber(set_these, p) ==
  IF p.i = Len(p.text) THEN ParseThrow(p, "kMissingSpecifier")
  ELSE LET end == EndArgumentNumber(p.text, p.i)
       IN IF end = npos
            THEN [p EXCEPT !.define_queue =
                    Append(@, References(set_these, Len(p.format)))]
          ELSE IF end = Len(p.text) THEN ParseThrow(p, "kMissingSpecifier")
          ELSE BindNumber(set_these, p, end,
                          ParseNumber(p.text, p.i, end - 1, "size_type"))

\* Format::SetArg; p.i is one before the number, at return it is after it
SetArg(set_these, p) ==
  SetArgNumber(set_these,
               [p EXCEPT !.format[Len(p.format)].need = @ \cup set_these,
                         !.i = @ + 1])

Specifiers ==
  {"n", "s", "S", "d", "D", "x", "X", "o", "O", "f", "F", "e", "E", "a", "A"}

\* the setf() call of a specifier's case in ParseFormat
SpecifierSetf(fl, c) ==
  CASE c = "S" -> Setf(fl, {"boolalpha", "showpoint"})
    [] c = "d" -> Setf(fl, {"boolalpha"})
    [] c = "D" -> Setf(fl, {"boolalpha", "uppercase"})
    [] c = "x" -> SetfMask(fl, {"hex"}, basefield)
    [] c = "X" -> SetfMask(fl, {"hex", "uppercase"},
                           basefield \cup {"uppercase"})
    [] c = "o" -> SetfMask(fl, {"oct"}, basefield)
    [] c = "O" -> SetfMask(fl, {"oct", "uppercase"},
                           basefield \cup {"uppercase"})
    [] c = "f" -> Setf(fl, {"fixed"})
    [] c = "F" -> Setf(fl, {"fixed", "uppercase"})
    [] c = "e" -> Setf(fl, {"scientific"})
    [] c = "E" -> Setf(fl, {"scientific", "uppercase"})
    [] c = "a" -> Setf(fl, {"fixed", "scientific"})
    [] c = "A" -> Setf(fl, {"fixed", "scientific", "uppercase"})
    [] OTHER -> fl

\* the |= of extensions_ of a specifier's case in ParseFormat
SpecifierExtensions(c) ==
  CASE c = "n" -> {"kIgnore"}
    [] c \in {"S", "d", "D"} -> {"kStringNpos"}
    [] OTHER -> {}

\* a literal width or precision n was read up to end
LiteralNumber(p, field, end, n) ==
  IF ~n.ok THEN ParseThrow(p, "kNumberOverflow")
  ELSE [p EXCEPT !.format[Len(p.format)][field] = n.number, !.i = end]

\* the digits of a literal width or precision at p.i
ParseLiteral(p, field) ==
  LET end == EndNumber(p.text, p.i)
  IN IF end = Len(p.text) THEN ParseThrow(p, "kMissingSpecifier")
     ELSE LiteralNumber(p, field, end,
                        ParseNumber(p.text, p.i, end, "streamsize"))

\* case '.' of ParseFormat behind ++i: p.i is behind the .
ParsePrecision(p) ==
  IF p.i = Len(p.text) THEN ParseThrow(p, "kMissingSpecifier")
  ELSE IF IsPositiveNumber(At(p.text, p.i)) THEN ParseLiteral(p, "precision")
  ELSE IF At(p.text, p.i) = "*" THEN SetArg({"kPrecision"}, p)
  \* a plain . is admissible and interpreted as precision 0
  ELSE [p EXCEPT !.format[Len(p.format)].precision = 0, !.plain = TRUE]

\* The switch of the loop for (;; c = text_[i]) of ParseFormat for the
\* character c = text_[i]. plain: the case ends with break and without a
\* specifier, and if (++i == text_.size()) follows.
ParseCharacter(p, c) ==
  CASE c = "#" ->
         [p EXCEPT !.format[Len(p.format)].fmtflags = Setf(@, {"showbase"}),
                   !.plain = TRUE]
    [] c = " " ->
         [p EXCEPT
            !.format[Len(p.format)].extensions = @ \cup {"kPlusSpace"},
            !.format[Len(p.format)].fmtflags = Setf(@, {"showpos"}),
            !.plain = TRUE]
    [] c = "+" ->
         [p EXCEPT !.format[Len(p.format)].fmtflags = Setf(@, {"showpos"}),
                   !.plain = TRUE]
    [] c = "0" ->
         [p EXCEPT !.format[Len(p.format)].fill = "0", !.plain = TRUE]
    [] c = "_" ->
         IF p.i + 1 = Len(p.text) THEN ParseThrow(p, "kMissingFillCharacter")
         ELSE [p EXCEPT !.i = @ + 1,
                        !.format[Len(p.format)].fill = At(p.text, p.i + 1),
                        !.plain = TRUE]
    [] c = "/" -> SetArg({"kFill"}, p)
    [] c = "-" ->
         [p EXCEPT
            !.format[Len(p.format)].fmtflags =
               SetfMask(@, {"left"}, adjustfield),
            !.plain = TRUE]
    [] c = ":" ->
         [p EXCEPT
            !.format[Len(p.format)].fmtflags =
               SetfMask(@, {"internal"}, adjustfield),
            !.plain = TRUE]
    [] c = "*" -> SetArg({"kWidth"}, p)
    [] c = "." -> ParsePrecision([p EXCEPT !.i = @ + 1])
    [] c = "~" -> SetArg({"kLocale"}, p)
    [] c \in Specifiers ->
         [p EXCEPT !.format[Len(p.format)].fmtflags = SpecifierSetf(@, c),
                   !.format[Len(p.format)].extensions =
                      @ \cup SpecifierExtensions(c),
                   !.got_specifier = TRUE]
    [] OTHER ->
         IF ~IsDigit(c) THEN ParseThrow(p, "kUnknownSpecifier")
         ELSE ParseLiteral(p, "width")

\* The loop for (;; c = text_[i]) of ParseFormat over the modifiers and the
\* specifier of one directive. It returns with p.error set, or with p.i
\* behind the specifier.
RECURSIVE ParseDirective(_)
\* behind the switch
ParseSwitched(p) ==
  IF p.error # "kNone" THEN p
  ELSE IF p.got_specifier THEN [p EXCEPT !.i = @ + 1]
  ELSE IF ~p.plain THEN ParseDirective(p)
  ELSE IF p.i + 1 = Len(p.text) THEN ParseThrow(p, "kMissingSpecifier")
  ELSE ParseDirective([p EXCEPT !.i = @ + 1])

ParseDirective(p) ==
  ParseSwitched(
    ParseCharacter([p EXCEPT !.plain = FALSE, !.got_specifier = FALSE],
                   At(p.text, p.i)))

\* The second loop of ParseFormat: give an argnumber to the postponed
\* requests define_queue[k..], argnum being the next candidate.
\* the loop without its inner while: the numbers 0, 1, ... are given
RECURSIVE GiveNumbersInOrder(_, _, _, _, _)
GiveNumbersInOrder(args, specified, define_queue, k, argnum) ==
  IF k > Len(define_queue) THEN args
  ELSE GiveNumbersInOrder(
         SetIndirect(args, argnum, define_queue[k].set_these,
                     define_queue[k].manip),
         specified, define_queue, k + 1, argnum + 1)

RECURSIVE GiveNumbers(_, _, _, _, _)
GiveNumbers(args, specified, define_queue, k, argnum) ==
  IF k > Len(define_queue) THEN args
  ELSE IF argnum < Len(specified) /\ specified[argnum + 1]
    THEN GiveNumbers(args, specified, define_queue, k, argnum + 1)
  ELSE GiveNumbers(
         SetIndirect(args, argnum, define_queue[k].set_these,
                     define_queue[k].manip),
         specified, define_queue, k + 1, argnum + 1)

\* total_args of ParseFormat
TotalArgs(specified, define_queue) ==
  Len(define_queue) + Cardinality({k \in 1..Len(specified) : specified[k]})

\* ParseFormat behind its while loop
ParseFinish(p) ==
  IF p.define_queue = <<>> THEN p
  ELSE [p EXCEPT
          !.args = GiveNumbers(
                     Resize(@, TotalArgs(p.specified, p.define_queue), <<>>),
                     p.specified, p.define_queue, 1, 0)]

\* a directive begins at start: its border and Manip, and the block of
\* ParseFormat that reads its argument number
ParseArgumentNumber(p) ==
  LET end == EndArgumentNumber(p.text, p.i)
  IN IF end = npos THEN [p EXCEPT !.unknown_number = TRUE]
     ELSE IF end = Len(p.text) THEN ParseThrow(p, "kMissingSpecifier")
     ELSE BindNumber({"kArg"}, [p EXCEPT !.unknown_number = FALSE], end,
                     ParseNumber(p.text, p.i, end - 1, "size_type"))

ParseBegin(p, start) ==
  ParseArgumentNumber([p EXCEPT !.borders = Append(@, start),
                                !.format = Append(@, ManipNew),
                                !.i = start + 1])

\* the modifiers and the specifier, unless the argument number failed
ParseModifiers(p) == IF p.error # "kNone" THEN p ELSE ParseDirective(p)

\* The while loop of ParseFormat: p.i is where the search for % goes on.
RECURSIVE ParseLoop(_)
\* the end of the body with the main argument of the directive queued
\* before the indirect modifiers of the directive
ParseEndMainFirst(p) ==
  IF p.error # "kNone" THEN p
  ELSE ParseLoop([p EXCEPT
                    !.define_queue =
                       IF p.unknown_number
                         THEN SelectSeq(@, LAMBDA r : r.manip # Len(p.format))
                                \o <<References({"kArg"}, Len(p.format))>>
                                \o SelectSeq(@,
                                             LAMBDA r : r.manip = Len(p.format))
                         ELSE @,
                    !.borders = Append(@, p.i)])

\* the end of the body of the while loop
ParseEnd(p) ==
  IF p.error # "kNone" THEN p
  ELSE ParseLoop([p EXCEPT
                    !.define_queue =
                       IF p.unknown_number
                         THEN Append(@, References({"kArg"}, Len(p.format)))
                         ELSE @,
                    !.borders = Append(@, p.i)])

\* %% with the search going on one character too far behind it
ParsePercentSkipping(p, i) ==
  IF i # Len(p.text) - 1
    THEN ParseLoop([p EXCEPT !.text = Erase(@, i), !.i = i + 1])
    ELSE ParseFinish([p EXCEPT !.text = Erase(@, i), !.i = i])

\* %% was found, the second % is at i
ParsePercent(p, i) ==
  IF i # Len(p.text) - 1
    THEN ParseLoop([p EXCEPT !.text = Erase(@, i), !.i = i])
    ELSE ParseFinish([p EXCEPT !.text = Erase(@, i), !.i = i])

ParseLoop(p) ==
  LET start == Find(p.text, "%", p.i)
  IN IF start = npos THEN ParseFinish(p)
     ELSE IF start + 1 = Len(p.text)
       THEN ParseThrow(p, "kTrailingPercentage")
     ELSE IF At(p.text, start + 1) = "%" THEN ParsePercent(p, start + 1)
     ELSE ParseEnd(ParseModifiers(ParseBegin(p, start)))

\* Format::ParseFormat on text_ = text; it returns true iff error = "kNone"
ParseFormat(text) == ParseLoop(ParseNew(text))

(***************************************************************************)
(* Argument values. An argument is a value of a C++ type: n is its value   *)
(* as a number (the character code of a char), s its characters.           *)
(***************************************************************************)
VInt(n) == [type |-> "int", n |-> n, s |-> <<>>]
VBool(b) == [type |-> "bool", n |-> IF b THEN 1 ELSE 0, s |-> <<>>]
VString(s) == [type |-> "string", n |-> 0, s |-> s]
VLocale == [type |-> "locale", n |-> 0, s |-> <<>>]
\* the std::string::size_type value std::string::npos
VNpos == [type |-> "size_type", n |-> npos, s |-> <<>>]

\* the character codes the model needs (ASCII)
CharCode(c) ==
  CASE c = " " -> 32 [] c = "%" -> 37 [] c = "+" -> 43 [] c = "-" -> 45
    [] c = "0" -> 48 [] c = "a" -> 97 [] c = "x" -> 120 [] c = "y" -> 121

KnownChars == {" ", "%", "+", "-", "0", "a", "x", "y"}

\* static_cast<char>(n): the character of code n; a character the model
\* has no name for is written \code
CharOf(n) ==
  LET code == n % 256
  IN IF \E c \in KnownChars : CharCode(c) = code
       THEN CHOOSE c \in KnownChars : CharCode(c) = code
       ELSE "\\" \o ToString(code)

VChar(c) == [type |-> "char", n |-> CharCode(c), s |-> <<c>>]

\* an argument of type signed char, which is output as a character
VSignedChar(n) == [type |-> "signed char", n |-> n, s |-> <<CharOf(n)>>]

\* the types with an overload of SetPrecision, SetWidth and SetFill
NumericTypes == {"bool", "char", "signed char", "int", "size_type"}

(***************************************************************************)
(* std::ostream << arg on the ostringstream of a Manip.                    *)
(***************************************************************************)
LowerDigits ==
  <<"0", "1", "2", "3", "4", "5", "6", "7", "8", "9",
    "a", "b", "c", "d", "e", "f">>
UpperDigits ==
  <<"0", "1", "2", "3", "4", "5", "6", "7", "8", "9",
    "A", "B", "C", "D", "E", "F">>

\* the digits of n >= 0 in a base
RECURSIVE NatDigits(_, _, _)
NatDigits(n, base, digits) ==
  IF n < base THEN <<digits[n + 1]>>
  ELSE Append(NatDigits(n \div base, base, digits), digits[(n % base) + 1])

RECURSIVE Power(_, _)
Power(b, e) == IF e = 0 THEN 1 ELSE b * Power(b, e - 1)

\* the digits of the 32 bit two's complement of n < 0 in base 16 or 8
NegDigits(n, base, digits) ==
  LET count == IF base = 16 THEN 8 ELSE 11
      top == IF base = 16 THEN 16 ELSE 4
  IN [k \in 1..count |->
        LET shifted == n \div Power(base, count - k)
        IN digits[(shifted % (IF k = 1 THEN top ELSE base)) + 1]]

\* num_put of an integer: the sign or base prefix, and the digits
NumberText(n, fl) ==
  LET digits == IF "uppercase" \in fl THEN UpperDigits ELSE LowerDigits
  IN IF "hex" \in fl
       THEN [prefix |-> IF "showbase" \in fl /\ n # 0
                          THEN IF "uppercase" \in fl THEN <<"0", "X">>
                               ELSE <<"0", "x">>
                          ELSE <<>>,
             digits |-> IF n < 0 THEN NegDigits(n, 16, digits)
                        ELSE NatDigits(n, 16, digits)]
     ELSE IF "oct" \in fl
       THEN [prefix |-> IF "showbase" \in fl /\ n # 0 THEN <<"0">> ELSE <<>>,
             digits |-> IF n < 0 THEN NegDigits(n, 8, digits)
                        ELSE NatDigits(n, 8, digits)]
     ELSE [prefix |-> IF n < 0 THEN <<"-">>
                      ELSE IF "showpos" \in fl THEN <<"+">> ELSE <<>>,
           digits |-> NatDigits(IF n < 0 THEN -n ELSE n, 10, digits)]

\* the text of arg before padding
ArgText(arg, fl) ==
  CASE arg.type = "int" -> NumberText(arg.n, fl)
    [] arg.type = "size_type" ->
         \* unsigned: showpos does not apply
         [prefix |-> <<>>,
          digits |-> IF arg.n = npos
                       THEN <<"1", "8", "4", "4", "6", "7", "4", "4", "0",
                              "7", "3", "7", "0", "9", "5", "5", "1", "6",
                              "1", "5">>
                       ELSE NatDigits(arg.n, 10, LowerDigits)]
    [] arg.type = "bool" ->
         IF "boolalpha" \in fl
           THEN [prefix |-> <<>>,
                 digits |-> IF arg.n = 1 THEN <<"t", "r", "u", "e">>
                            ELSE <<"f", "a", "l", "s", "e">>]
           ELSE NumberText(arg.n, fl)
    [] OTHER -> [prefix |-> <<>>, digits |-> arg.s]

Fill(n, c) == [k \in 1..n |-> c]

\* padding to os.width() with os.fill() according to adjustfield
Padded(text, manip) ==
  LET len == Len(text.prefix) + Len(text.digits)
      pad == Fill(IF manip.width > len THEN manip.width - len ELSE 0,
                  manip.fill)
  IN IF "left" \in manip.fmtflags THEN text.prefix \o text.digits \o pad
     ELSE IF "internal" \in manip.fmtflags
       THEN text.prefix \o pad \o text.digits
     ELSE pad \o text.prefix \o text.digits

\* (*os) << arg: formatted output, after which os.width() is 0
Insert(manip, text) ==
  [manip EXCEPT !.str = @ \o Padded(text, manip), !.width = 0]

\* Format::StringStandard; the locale overload throws
StringStandard(manip, arg) ==
  IF arg.type = "locale"
    THEN [ok |-> FALSE, error |-> "kLocaleMustNotBeOutput", manip |-> manip]
    ELSE [ok |-> TRUE, error |-> "kNone",
          manip |-> Insert(manip, ArgText(arg, manip.fmtflags))]

\* Format::StringNpos
StringNpos(manip, arg) ==
  IF arg.type = "locale"
    THEN [ok |-> FALSE, error |-> "kLocaleMustNotBeOutput", manip |-> manip]
  ELSE IF arg.type = "size_type" /\ arg.n = npos
    THEN [ok |-> TRUE, error |-> "kNone",
          manip |-> Insert(manip,
                      [prefix |-> <<>>,
                       digits |-> <<"s", "t", "d", ":", ":", "s", "t", "r",
                                    "i", "n", "g", ":", ":", "n", "p", "o",
                                    "s">>])]
  ELSE [ok |-> TRUE, error |-> "kNone",
        manip |-> Insert(manip, ArgText(arg, manip.fmtflags))]

\* Format::SetLocale: the template throws, the std::locale overload imbues
SetLocale(manip, arg) ==
  IF arg.type = "locale"
    THEN [ok |-> TRUE, error |-> "kNone",
          manip |-> [manip EXCEPT !.locale = TRUE]]
    ELSE [ok |-> FALSE, error |-> "kLocaleArgIsNoLocale", manip |-> manip]

\* Format::SetPrecision
SetPrecision(manip, arg) ==
  IF arg.type \in NumericTypes
    THEN [ok |-> TRUE, error |-> "kNone",
          manip |-> [manip EXCEPT !.precision = arg.n]]
    ELSE [ok |-> FALSE, error |-> "kPrecisionArgIsNotNumeric",
          manip |-> manip]

\* the types whose overload of SetWidth tests arg < 0
SignedTypes == {"char", "signed char", "int"}

\* the bits of char and signed char
CharBits == 8

\* arg = -arg in the type of arg: the value is converted back to the type
\* (the int values of the model are far from the ends of int)
Negated(arg) ==
  IF arg.type \in {"char", "signed char"}
    THEN LET m == Pow2(CharBits)
             u == (-arg.n) % m
         IN IF u >= m \div 2 THEN u - m ELSE u
    ELSE -arg.n

\* Format::SetWidth: the overloads of the signed types negate a negative
\* argument and set ios_base::left
SetWidth(manip, arg) ==
  IF arg.type \notin NumericTypes
    THEN [ok |-> FALSE, error |-> "kWidthArgIsNotNumeric", manip |-> manip]
  ELSE IF arg.type \in SignedTypes /\ arg.n < 0
    THEN [ok |-> TRUE, error |-> "kNone",
          manip |-> [manip EXCEPT
                       !.width = Negated(arg),
                       !.fmtflags = SetfMask(@, {"left"}, adjustfield)]]
  ELSE [ok |-> TRUE, error |-> "kNone",
        manip |-> [manip EXCEPT !.width = arg.n]]

\* SetFill that leaves a fill character that the format string has set
SetFillUnlessSet(manip, arg) ==
  IF arg.type \in NumericTypes
    THEN [ok |-> TRUE, error |-> "kNone",
          manip |-> [manip EXCEPT
                       !.fill = IF @ # " " THEN @
                                ELSE IF arg.type = "char" THEN arg.s[1]
                                ELSE CharOf(arg.n)]]
    ELSE [ok |-> FALSE, error |-> "kFillArgIsNotChar", manip |-> manip]

\* Format::SetFill
SetFill(manip, arg) ==
  IF arg.type \in NumericTypes
    THEN [ok |-> TRUE, error |-> "kNone",
          manip |-> [manip EXCEPT
                       !.fill = IF arg.type = "char" THEN arg.s[1]
                                ELSE CharOf(arg.n)]]
    ELSE [ok |-> FALSE, error |-> "kFillArgIsNotChar", manip |-> manip]

(***************************************************************************)
(* The Format object and its environment. An object o is the record of    *)
(* the fields of Format (abort_, success_, error_, text_, parse_, flags_)  *)
(* with                                                                    *)
(*   success   the bool success_ points to,                                *)
(*   parse_    <<>> for NULL, <<the Parse>> otherwise,                     *)
(*   out       what the string, the FILE and the ostream of the            *)
(*             environment have received,                                  *)
(*   aborted   std::abort() was called,                                    *)
(*   complete  InitialOutput ran (history),                                *)
(*   assembled the number of runs of FinishInsertingArgs (history).        *)
(* io is what the environment does to a write: "ok", "short" (fwrite       *)
(* writes nothing, the ostream goes bad) or "flushfail".                   *)
(***************************************************************************)
IoOutcomes == {"ok", "short", "flushfail"}

\* Format::Parse::Parse(simple, append, file, ostream)
ParseObject(simple, sink) ==
  [simple |-> simple, sink |-> sink, format |-> <<>>, borders |-> <<>>,
   args |-> <<>>, current_arg |-> 0]

\* Format::Throw
Throw(o, error) ==
  IF o.abort_ THEN [o EXCEPT !.aborted = TRUE]
  ELSE [o EXCEPT !.error_ = error,
                 !.success = IF o.success_ # "NULL" THEN FALSE ELSE @,
                 !.parse_ = <<>>]

\* Check that reports the missing arguments and keeps the Parse
CheckKeeping(o) ==
  IF o.parse_ # <<>>
    THEN [o EXCEPT !.error_ = "kTooFewArguments",
                   !.success = IF o.success_ # "NULL" THEN FALSE ELSE @]
    ELSE o

\* Format::Check
Check(o) == IF o.parse_ # <<>> THEN Throw(o, "kTooFewArguments") ELSE o

\* bool Format::flush() const
Flush(o) == "kFlush" \in o.flags_

\* OutputInternal(string *append) that appends the newline of the flag
\* at every call
OutputInternalStringNewline(o) ==
  [o EXCEPT !.text_ = IF "kNewline" \in o.flags_ THEN Append(@, "\n") ELSE @,
            !.out.string = @ \o o.text_,
            !.error_ = "kNone",
            !.success = IF o.success_ # "NULL" THEN TRUE ELSE @]

\* Format::OutputInternal(string *append)
OutputInternalString(o) ==
  [o EXCEPT !.out.string = @ \o o.text_,
            !.error_ = "kNone",
            !.success = IF o.success_ # "NULL" THEN TRUE ELSE @]

\* Format::OutputInternal(FILE *file) and OutputInternal(ostream&), which
\* differ in the sink alone
OutputInternalStream(o, sink, io) ==
  LET o1 == [o EXCEPT !.error_ = "kNone"]
      SetSuccess(q, success) ==
        IF q.aborted THEN q
        ELSE [q EXCEPT !.success = IF q.success_ # "NULL" THEN success ELSE @]
  IN IF o.text_ = <<>> THEN SetSuccess(o1, TRUE)
     ELSE IF io = "short" THEN SetSuccess(Throw(o1, "kWriteFailed"), FALSE)
     ELSE LET o2 == [o1 EXCEPT !.out[sink] = @ \o o.text_]
          IN IF Flush(o) /\ io = "flushfail"
               THEN SetSuccess(Throw(o2, "kFlushFailed"), FALSE)
               ELSE SetSuccess(o2, TRUE)

\* InitialOutput that appends to no string
InitialOutputUnwritten(o, io) ==
  LET o1 == [o EXCEPT !.text_ = IF "kNewline" \in o.flags_
                                  THEN Append(@, "\n") ELSE @,
                      !.complete = TRUE]
      sink == o.parse_[1].sink
      o2 == CASE sink \in {"file", "ostream", "stdout", "stderr"} ->
                   OutputInternalStream(o1, sink, io)
              [] OTHER ->
                   [o1 EXCEPT !.error_ = "kNone",
                              !.success = IF o.success_ # "NULL" THEN TRUE
                                          ELSE @]
  IN [o2 EXCEPT !.parse_ = <<>>]

\* Format::InitialOutput
InitialOutput(o, io) ==
  LET o1 == [o EXCEPT !.text_ = IF "kNewline" \in o.flags_
                                  THEN Append(@, "\n") ELSE @,
                      !.complete = TRUE]
      sink == o.parse_[1].sink
      o2 == CASE sink = "string" -> OutputInternalString(o1)
              [] sink \in {"file", "ostream", "stdout", "stderr"} ->
                   OutputInternalStream(o1, sink, io)
              [] OTHER ->
                   [o1 EXCEPT !.error_ = "kNone",
                              !.success = IF o.success_ # "NULL" THEN TRUE
                                          ELSE @]
  IN [o2 EXCEPT !.parse_ = <<>>]

\* the result of a Manip with every + replaced by a space
ManipResultEveryPlus(manip) ==
  IF "kIgnore" \in manip.extensions THEN <<>>
  ELSE IF "kPlusSpace" \notin manip.extensions THEN manip.str
  ELSE [k \in 1..Len(manip.str) |->
          IF manip.str[k] = "+" THEN " " ELSE manip.str[k]]

\* the result of a Manip in FinishInsertingArgs: kIgnore appends nothing,
\* kPlusSpace replaces the first + by a space
ManipResult(manip) ==
  IF "kIgnore" \in manip.extensions THEN <<>>
  ELSE IF "kPlusSpace" \notin manip.extensions THEN manip.str
  ELSE LET plus == Find(manip.str, "+", 0)
       IN IF plus # npos THEN [manip.str EXCEPT ![plus + 1] = " "]
          ELSE manip.str

\* the loop of FinishInsertingArgs from the k-th Manip on, and the append
\* of the text behind the last directive
RECURSIVE Assemble(_, _, _, _, _, _)
Assemble(text, borders, format, k, current_pos, result) ==
  IF k > Len(format)
    THEN IF current_pos # npos
           THEN result \o SubStr(text, current_pos, Len(text) - current_pos)
           ELSE result
    ELSE Assemble(text, borders, format, k + 1, borders[2 * k],
                  result
                    \o SubStr(text, current_pos,
                              borders[(2 * k) - 1] - current_pos)
                    \o ManipResult(format[k]))

\* Format::FinishInsertingArgs
FinishInsertingArgs(o, io) ==
  LET parse == o.parse_[1]
  IN InitialOutput(
       [o EXCEPT !.text_ = Assemble(o.text_, parse.borders, parse.format,
                                    1, 0, <<>>),
                 !.assembled = @ + 1],
       io)

(***************************************************************************)
(* operator%                                                               *)
(***************************************************************************)
Applied(manip) == [ok |-> TRUE, error |-> "kNone", manip |-> manip]

\* the Set function that one of the four blocks of operator% calls
SetKind(kind, manip, arg) ==
  CASE kind = "kLocale" -> SetLocale(manip, arg)
    [] kind = "kPrecision" -> SetPrecision(manip, arg)
    [] kind = "kWidth" -> SetWidth(manip, arg)
    [] kind = "kFill" -> SetFill(manip, arg)

\* the block behind a successful Set: manip->need_ &= ~kind
ApplySet(q, kind) ==
  IF ~q.ok THEN q ELSE [q EXCEPT !.manip.need = @ \ {kind}]

\* one of the four blocks if ((set_these & kind) != kNone) of operator%
ApplyKind(r, set_these, kind, arg) ==
  IF ~r.ok \/ kind \notin set_these THEN r
  ELSE ApplySet(SetKind(kind, r.manip, arg), kind)

\* the part behind the four blocks without the test of need_
ApplyArgUnchecked(r, set_these, arg) ==
  IF ~r.ok \/ "kArg" \notin set_these THEN r
  ELSE IF "kIgnore" \in r.manip.extensions THEN r
  ELSE IF "kStringNpos" \in r.manip.extensions THEN StringNpos(r.manip, arg)
  ELSE StringStandard(r.manip, arg)

\* the part of operator% behind the four blocks: kArg is processed last
ApplyArg(r, set_these, arg) ==
  IF ~r.ok \/ "kArg" \notin set_these THEN r
  ELSE IF r.manip.need # {}
    THEN [ok |-> FALSE, error |-> "kTooEarlyArgument", manip |-> r.manip]
  ELSE IF "kIgnore" \in r.manip.extensions THEN r
  ELSE IF "kStringNpos" \in r.manip.extensions THEN StringNpos(r.manip, arg)
  ELSE StringStandard(r.manip, arg)

\* the body of the loop with kArg processed first
ApplyReferencesArgFirst(manip, set_these, arg) ==
  ApplyKind(
    ApplyKind(
      ApplyKind(
        ApplyKind(ApplyArg(Applied(manip), set_these, arg),
                  set_these, "kLocale", arg),
        set_these, "kPrecision", arg),
      set_these, "kWidth", arg),
    set_these, "kFill", arg)

\* the body of the loop with the four blocks in the reverse order
ApplyReferencesFillFirst(manip, set_these, arg) ==
  ApplyArg(
    ApplyKind(
      ApplyKind(
        ApplyKind(
          ApplyKind(Applied(manip), set_these, "kFill", arg),
          set_these, "kWidth", arg),
        set_these, "kPrecision", arg),
      set_these, "kLocale", arg),
    set_these, arg)

\* the body of the loop of operator% for one References
ApplyReferences(manip, set_these, arg) ==
  ApplyArg(
    ApplyKind(
      ApplyKind(
        ApplyKind(
          ApplyKind(Applied(manip), set_these, "kLocale", arg),
          set_these, "kPrecision", arg),
        set_these, "kWidth", arg),
      set_these, "kFill", arg),
    set_these, arg)

\* the loop of operator% over *(parse->current_arg_), from position k
RECURSIVE ApplyDefines(_, _, _, _)
\* r is what the body of the loop made of the Manip of defines[k]
ApplyNext(format, defines, k, arg, r) ==
  IF ~r.ok THEN [ok |-> FALSE, error |-> r.error, format |-> format]
  ELSE ApplyDefines([format EXCEPT ![defines[k].manip] = r.manip],
                    defines, k + 1, arg)

ApplyDefines(format, defines, k, arg) ==
  IF k > Len(defines) THEN [ok |-> TRUE, error |-> "kNone", format |-> format]
  ELSE ApplyNext(format, defines, k, arg,
                 ApplyReferences(format[defines[k].manip],
                                 defines[k].set_these, arg))

\* the branch if (parse->simple_) without the call of InitialOutput
PercentSimpleText(o, io, r) ==
  IF ~r.ok THEN Throw(o, r.error)
  ELSE [o EXCEPT !.text_ = r.manip.str]

\* the branch if (parse->simple_) of operator%; r is what StringStandard made of os
PercentSimple(o, io, r) ==
  IF ~r.ok THEN Throw(o, r.error)
  ELSE InitialOutput([o EXCEPT !.text_ = r.manip.str], io)

\* the part behind the loop that assembles the text after every argument
PercentParsedAtOnce(o, io, r) ==
  IF ~r.ok THEN Throw(o, r.error)
  ELSE FinishInsertingArgs([o EXCEPT !.parse_[1].format = r.format,
                                     !.parse_[1].current_arg = @ + 1],
                           io)

\* behind the loop over the References; r is what the loop made of format_
PercentParsed(o, io, r) ==
  IF ~r.ok THEN Throw(o, r.error)
  ELSE IF o.parse_[1].current_arg + 1 = Len(o.parse_[1].args)
    THEN FinishInsertingArgs([o EXCEPT !.parse_[1].format = r.format,
                                       !.parse_[1].current_arg = @ + 1],
                             io)
  ELSE [o EXCEPT !.parse_[1].format = r.format,
                 !.parse_[1].current_arg = @ + 1]

\* operator% that ignores an argument to an object without Parse
PercentIgnoringExtra(o, arg, io) ==
  IF o.parse_ = <<>> THEN o
  ELSE IF o.parse_[1].simple
    THEN PercentSimple(o, io, StringStandard(ManipNew, arg))
  ELSE PercentParsed(o, io,
                     ApplyDefines(o.parse_[1].format,
                                  o.parse_[1].args[o.parse_[1].current_arg + 1],
                                  1, arg))

\* operator% that reports every argument without a Parse as one too many
PercentAlwaysTooMany(o, arg, io) ==
  IF o.parse_ = <<>> THEN Throw(o, "kTooManyArguments")
  ELSE IF o.parse_[1].simple
    THEN PercentSimple(o, io, StringStandard(ManipNew, arg))
  ELSE PercentParsed(o, io,
                     ApplyDefines(o.parse_[1].format,
                                  o.parse_[1].args[o.parse_[1].current_arg + 1],
                                  1, arg))

\* Format::operator%(arg)
Percent(o, arg, io) ==
  IF o.parse_ = <<>>
    THEN IF o.error_ = "kNone" THEN Throw(o, "kTooManyArguments") ELSE o
  ELSE IF o.parse_[1].simple
    THEN PercentSimple(o, io, StringStandard(ManipNew, arg))
  ELSE PercentParsed(o, io,
                     ApplyDefines(o.parse_[1].format,
                                  o.parse_[1].args[o.parse_[1].current_arg + 1],
                                  1, arg))

(***************************************************************************)
(* Output(), the reading methods, the constructors.                        *)
(***************************************************************************)
\* Format::Output(std::string *append)
OutputString(o) ==
  LET c == Check(o)
  IN IF c.aborted THEN c ELSE OutputInternalString(c)

\* Format::Output(FILE *file), Output(std::ostream&) and operator<<
OutputStream(o, sink, io) ==
  LET c == Check(o)
  IN IF c.aborted THEN c ELSE OutputInternalStream(c, sink, io)

\* StringReference(), str(), c_str(), size(), empty(): Check(), then text_
\* is read
Read(o) == Check(o)

\* the object as the member initialisers of a constructor leave it:
\* error_ is not initialised, every path of Init sets it
Constructed(abort, text, flags) ==
  [abort_ |-> abort, success_ |-> IF abort THEN "NULL" ELSE "success",
   success |-> TRUE, error_ |-> "kNone", text_ |-> text, parse_ |-> <<>>,
   flags_ |-> flags,
   out |-> [string |-> <<>>, file |-> <<>>, ostream |-> <<>>,
           stdout |-> <<>>, stderr |-> <<>>],
   aborted |-> FALSE, complete |-> FALSE, assembled |-> 0]

\* Format::Init(append, file, ostream, bool format)
InitBool(o, sink, format, io) ==
  LET o1 == [o EXCEPT !.parse_ = <<ParseObject(TRUE, sink)>>]
  IN IF ~format THEN InitialOutput(o1, io)
     ELSE [o1 EXCEPT !.error_ = "kTooFewArguments",
                     !.success = IF o.success_ # "NULL" THEN FALSE ELSE @]

\* Init(append, file, ostream) that lets every parsed format wait for
\* arguments
InitParsedWaiting(o, io, ok, error) ==
  IF ~ok THEN Throw(o, error)
  ELSE [o EXCEPT !.error_ = "kTooFewArguments",
                 !.success = IF o.success_ # "NULL" THEN FALSE ELSE @]

\* Format::Init(append, file, ostream)
\* o has the text_ and the Parse that ParseFormat left; ok is what it returned
InitParsed(o, io, ok, error) ==
  IF ~ok THEN Throw(o, error)
  ELSE IF o.parse_[1].args = <<>> THEN InitialOutput(o, io)
  ELSE [o EXCEPT !.error_ = "kTooFewArguments",
                 !.success = IF o.success_ # "NULL" THEN FALSE ELSE @]

\* the Parse of the object and text_ as p, the result of ParseFormat, has them
InitParse(o, sink, io, p) ==
  InitParsed([o EXCEPT
                !.text_ = p.text,
                !.parse_ = <<[ParseObject(FALSE, sink) EXCEPT
                                !.format = p.format, !.borders = p.borders,
                                !.args = p.args]>>],
             io, p.error = "kNone", p.error)

InitText(o, sink, io) == InitParse(o, sink, io, ParseFormat(o.text_))

(***************************************************************************)
(* The format strings of the model. A format is described by its pieces:   *)
(* literal text, %%, a directive % [num $] modifiers specifier (num = 0:   *)
(* no argument number), or raw text that is no valid format. FormatText is *)
(* the format string written for a description.                            *)
(***************************************************************************)
RefNums == 0..MaxArgNum

Lit(text) == [kind |-> "lit", num |-> 0, mods |-> <<>>, tail |-> text]
Pct == [kind |-> "pct", num |-> 0, mods |-> <<>>, tail |-> <<"%", "%">>]
Raw(text) == [kind |-> "raw", num |-> 0, mods |-> <<>>, tail |-> text]
Dir(num, mods, spec) ==
  [kind |-> "dir", num |-> num, mods |-> mods, tail |-> <<spec>>]

IndirectKinds == {"kLocale", "kPrecision", "kWidth", "kFill"}

IndirectChars(kind) ==
  CASE kind = "kLocale" -> <<"~">>
    [] kind = "kPrecision" -> <<".", "*">>
    [] kind = "kWidth" -> <<"*">>
    [] kind = "kFill" -> <<"/">>

Indirect(kind, num) ==
  [kind |-> kind, num |-> num, text |-> IndirectChars(kind)]
Literal(text) == [kind |-> "literal", num |-> 0, text |-> text]

\* num$ as it is written, nothing for num = 0
NumText(num) ==
  IF num = 0 THEN <<>> ELSE Append(NatDigits(num, 10, LowerDigits), "$")

RECURSIVE ModsText(_)
ModsText(mods) ==
  IF mods = <<>> THEN <<>>
  ELSE mods[1].text \o NumText(mods[1].num) \o ModsText(Tail(mods))

PieceText(piece) ==
  IF piece.kind = "dir"
    THEN <<"%">> \o NumText(piece.num) \o ModsText(piece.mods) \o piece.tail
    ELSE piece.tail

RECURSIVE FormatText(_)
FormatText(pieces) ==
  IF pieces = <<>> THEN <<>>
  ELSE PieceText(pieces[1]) \o FormatText(Tail(pieces))

\* all sequences over S of a length in lo..hi
SeqsOf(S, lo, hi) == UNION {[1..n -> S] : n \in lo..hi}

IndirectMods == {Indirect(kind, num) : kind \in IndirectKinds, num \in RefNums}

LiteralMods ==
  {Literal(text) :
     text \in {<<"0">>, <<"_", "y">>, <<"-">>, <<"+">>, <<" ">>, <<"#">>,
               <<"2">>, <<".", "1">>}}

\* one directive with at most one modifier
OneModFormats ==
  {<<Dir(num, mods, spec)>> :
     num \in RefNums,
     mods \in {<<>>} \cup {<<m>> : m \in IndirectMods \cup LiteralMods},
     spec \in {"s", "d", "n"}}

\* one directive without argument number, with two indirect modifiers
\* without argument number
TwoModFormats ==
  {<<Dir(0, <<Indirect(k1, 0), Indirect(k2, 0)>>, "s")>> :
     k1 \in IndirectKinds, k2 \in IndirectKinds}

\* several directives %[num$][*[num$]]s
WidthDirectives ==
  {Dir(num, mods, "s") :
     num \in RefNums,
     mods \in {<<>>} \cup {<<Indirect("kWidth", k)>> : k \in RefNums}}

MultiFormats == SeqsOf(WidthDirectives, 2, MaxDirectives)

\* text, %% and %s in every order
TextFormats ==
  SeqsOf({Lit(<<"a">>), Lit(<<"s">>), Pct, Dir(0, <<>>, "s")}, 0, MaxPieces)

\* text, %1$s and %1$#x in every order
ReuseFormats ==
  SeqsOf({Lit(<<"=">>), Dir(1, <<>>, "s"), Dir(1, <<Literal(<<"#">>)>>, "x")},
         2, MaxPieces)

\* format strings with a syntax error
ErrorFormats ==
  {<<Raw(text)>> :
     text \in {<<"%">>, <<"a", "%">>, <<"%", "s", "%">>, <<"%", "%", "%">>,
               <<"%", "1", "$">>, <<"%", "*">>, <<"%", "*", "1", "$">>,
               <<"%", "2">>, <<"%", ".">>, <<"%", ".", "2">>,
               <<"%", "q">>, <<"%", "s", "%", "-", "q">>, <<"%", "_">>,
               <<"%", "1", "3", "0", "$", "s">>, <<"%", "*", "1", "3", "0", "$", "s">>,
               <<"%", "1", "3", "0", "s">>, <<"%", ".", "1", "3", "0", "s">>}}

ValidFormats ==
  OneModFormats \cup TwoModFormats \cup MultiFormats \cup TextFormats
    \cup ReuseFormats

\* the constructor's format parameter: a string, or a bool
FormatArgs ==
  {[mode |-> "text", pieces |-> f] : f \in ValidFormats \cup ErrorFormats}
    \cup {[mode |-> "true", pieces |-> <<>>],
          [mode |-> "false", pieces |-> <<>>]}

\* the arguments fed with %
Values == {VInt(3), VInt(-2), VChar("x"), VString(<<"a">>), VLocale}

\* Special::None(), Newline(), Flush(), NewlineFlush(), FlushNewline()
SpecialFlags(special) ==
  CASE special = "None" -> {}
    [] special = "Newline" -> {"kNewline"}
    [] special = "Flush" -> {"kNewline"}
    [] special = "NewlineFlush" -> {"kNewline", "kFlush"}
    [] special = "FlushNewline" -> {"kFlush", "kNewline"}

(***************************************************************************)
(* The state: the fields of one Format object, its environment, and the    *)
(* history of the run:                                                     *)
(*   ctor      the parameters the object was constructed with,             *)
(*   fed       the arguments given with % to the object while it waited   *)
(*             for arguments (parse_ != NULL), in their order,             *)
(*   nfeeds    the number of operator% calls,                              *)
(*   noutputs  the number of Output() calls.                               *)
(***************************************************************************)
VARIABLES abort_, success_, success, error_, text_, parse_, flags_, out,
          aborted, complete, assembled, ctor, fed, nfeeds, noutputs

vars == <<abort_, success_, success, error_, text_, parse_, flags_, out,
          aborted, complete, assembled, ctor, fed, nfeeds, noutputs>>

\* the object of the current state
Obj ==
  [abort_ |-> abort_, success_ |-> success_, success |-> success,
   error_ |-> error_, text_ |-> text_, parse_ |-> parse_, flags_ |-> flags_,
   out |-> out, aborted |-> aborted, complete |-> complete,
   assembled |-> assembled]

\* the object of the next state is o
Becomes(o) ==
  /\ abort_' = o.abort_
  /\ success_' = o.success_
  /\ success' = o.success
  /\ error_' = o.error_
  /\ text_' = o.text_
  /\ parse_' = o.parse_
  /\ flags_' = o.flags_
  /\ out' = o.out
  /\ aborted' = o.aborted
  /\ complete' = o.complete
  /\ assembled' = o.assembled

\* Format([success,] [output,] [format,] [flags]): a constructor with a
\* success parameter does not abort
Construct(c, io) ==
  IF c.mode = "text"
    THEN InitText(Constructed(c.abort, FormatText(c.pieces),
                              SpecialFlags(c.special)),
                  c.sink, io)
    ELSE InitBool(Constructed(c.abort, <<>>, SpecialFlags(c.special)),
                  c.sink, c.mode = "true", io)

Constructions(formats, sinks, specials, aborts) ==
  {[mode |-> f.mode, pieces |-> f.pieces, sink |-> sink,
    special |-> special, abort |-> abort] :
     f \in formats, sink \in sinks, special \in specials, abort \in aborts}

\* the state behind the constructor call c that made the object o
Starts(o, c) ==
  /\ abort_ = o.abort_
  /\ success_ = o.success_
  /\ success = o.success
  /\ error_ = o.error_
  /\ text_ = o.text_
  /\ parse_ = o.parse_
  /\ flags_ = o.flags_
  /\ out = o.out
  /\ aborted = o.aborted
  /\ complete = o.complete
  /\ assembled = o.assembled
  /\ ctor = c
  /\ fed = <<>>
  /\ nfeeds = 0
  /\ noutputs = 0

InitWith(constructions) ==
  \E c \in constructions, io \in IoOutcomes : Starts(Construct(c, io), c)

\* objects of every format of the model, without sink and flags, that
\* report errors
Init == InitWith(Constructions(FormatArgs, {"none"}, {"None"}, {FALSE}))

\* object % arg
Feed(arg) ==
  /\ ~aborted
  /\ nfeeds < MaxFeeds
  /\ \E io \in IoOutcomes : Becomes(Percent(Obj, arg, io))
  /\ fed' = IF parse_ # <<>> THEN Append(fed, arg) ELSE fed
  /\ nfeeds' = nfeeds + 1
  /\ UNCHANGED <<ctor, noutputs>>

\* object.str(), c_str(), size(), empty(), StringReference()
ReadText ==
  /\ ~aborted
  /\ Becomes(Read(Obj))
  /\ UNCHANGED <<ctor, fed, nfeeds, noutputs>>

\* object.Output(&string)
OutputToString ==
  /\ ~aborted
  /\ noutputs < MaxOutputs
  /\ Becomes(OutputString(Obj))
  /\ noutputs' = noutputs + 1
  /\ UNCHANGED <<ctor, fed, nfeeds>>

\* object.Output(file)
OutputToFile ==
  /\ ~aborted
  /\ noutputs < MaxOutputs
  /\ \E io \in IoOutcomes : Becomes(OutputStream(Obj, "file", io))
  /\ noutputs' = noutputs + 1
  /\ UNCHANGED <<ctor, fed, nfeeds>>

\* object.Output(ostream), ostream << object
OutputToOstream ==
  /\ ~aborted
  /\ noutputs < MaxOutputs
  /\ \E io \in IoOutcomes : Becomes(OutputStream(Obj, "ostream", io))
  /\ noutputs' = noutputs + 1
  /\ UNCHANGED <<ctor, fed, nfeeds>>

Next ==
  \/ \E arg \in Values : Feed(arg)
  \/ ReadText
  \/ OutputToString
  \/ OutputToFile
  \/ OutputToOstream

Spec == Init /\ [][Next]_vars

(***************************************************************************)
(* Objects with a sink and flags: a string, a FILE or an ostream given to  *)
(* the constructor, and every Special.                                     *)
(***************************************************************************)
Sinks == {"none", "string", "file", "ostream"}

Specials == {"None", "Newline", "Flush", "NewlineFlush", "FlushNewline"}

\* text without %, text with %% and %s, an indirect width, a syntax error
SinkFormats ==
  {<<>>, <<Lit(<<"a">>)>>, <<Lit(<<"a">>), Lit(<<"s">>)>>, <<Pct>>,
   <<Dir(0, <<>>, "s")>>, <<Lit(<<"a">>), Dir(0, <<>>, "s")>>,
   <<Dir(0, <<>>, "s"), Dir(0, <<>>, "s")>>,
   <<Dir(0, <<Indirect("kWidth", 0)>>, "s")>>, <<Raw(<<"%">>)>>}

SinkFormatArgs ==
  {[mode |-> "text", pieces |-> f] : f \in SinkFormats}
    \cup {[mode |-> "true", pieces |-> <<>>],
          [mode |-> "false", pieces |-> <<>>]}

InitSinks == InitWith(Constructions(SinkFormatArgs, Sinks, Specials, {FALSE}))

SpecSinks == InitSinks /\ [][Next]_vars

(***************************************************************************)
(* The inherited classes Print, PrintError, Say and SayError: their        *)
(* constructors call the constructor of Format with a FILE and flags of    *)
(* their own. SayError has no flags parameter.                             *)
(***************************************************************************)
Classes == {"Print", "PrintError", "Say", "SayError"}

\* the FILE the constructors of the class pass to Format
ClassFile(class) ==
  CASE class = "Print" -> "stdout"
    [] class = "PrintError" -> "stderr"
    [] class = "Say" -> "stdout"
    [] class = "SayError" -> "stdout"

\* the flags the constructors of the class pass to Format
ClassFlags(class, special) ==
  CASE class = "Print" -> SpecialFlags(special)
    [] class = "PrintError" -> SpecialFlags(special)
    [] class = "Say" -> SpecialFlags(special) \cup {"kNewline"}
    [] class = "SayError" -> SpecialFlags("NewlineFlush")

\* Print, PrintError, Say, SayError([success,] [format,] [flags]); without
\* a format the object waits for one
ConstructClass(c, io) ==
  IF c.mode = "text"
    THEN InitText(Constructed(c.abort, FormatText(c.pieces),
                              ClassFlags(c.class, c.special)),
                  ClassFile(c.class), io)
    ELSE InitBool(Constructed(c.abort, <<>>,
                              ClassFlags(c.class, c.special)),
                  ClassFile(c.class), TRUE, io)

ClassFormatArgs ==
  {[mode |-> "text", pieces |-> f] : f \in SinkFormats}
    \cup {[mode |-> "true", pieces |-> <<>>]}

ClassConstructions ==
  {[mode |-> f.mode, pieces |-> f.pieces, sink |-> ClassFile(class),
    special |-> special, abort |-> FALSE, class |-> class] :
     f \in ClassFormatArgs, class \in Classes, special \in Specials}

InitClasses ==
  \E c \in ClassConstructions, io \in IoOutcomes :
    /\ c.class = "SayError" => c.special = "None"
    /\ Starts(ConstructClass(c, io), c)

SpecClasses == InitClasses /\ [][Next]_vars

(***************************************************************************)
(* Copies: Format(const Format&) and assign(const Format&) copy abort_,    *)
(* success_, error_, flags_ and text_ and leave parse_ NULL. The object of *)
(* the state becomes the copy (ctor.mode = "copy"); complete and assembled *)
(* tell how the text that was copied came about.                           *)
(***************************************************************************)
\* Format::assign(const Format& s) into a new object
Assign(s) == [s EXCEPT !.parse_ = <<>>]

\* Format copy(object)
Copy ==
  /\ ~aborted
  /\ ctor.mode # "copy"
  /\ Becomes(Assign(Obj))
  /\ ctor' = [ctor EXCEPT !.mode = "copy"]
  /\ fed' = <<>>
  /\ UNCHANGED <<nfeeds, noutputs>>

InitCopy ==
  InitWith(Constructions(SinkFormatArgs, {"none", "string"}, {"None"},
                         {FALSE}))

NextCopy == Next \/ Copy

SpecCopy == InitCopy /\ [][NextCopy]_vars

(***************************************************************************)
(* Directives with literal modifiers: a plain ., the flags of alignment    *)
(* and sign, literal fill and width next to the indirect ones.             *)
(***************************************************************************)
\* %.s and %.f, last in the format and before a letter
DotFormats ==
  {<<Dir(0, <<Literal(<<".">>)>>, spec)>> \o tail :
     spec \in {"s", "f"},
     tail \in {<<>>, <<Lit(<<"a">>)>>, <<Lit(<<"x">>)>>}}

\* an indirect width behind no flag, - or :
StarFormats ==
  {<<Dir(0, flag \o <<Indirect("kWidth", 0)>>, spec)>> :
     flag \in {<<>>, <<Literal(<<"-">>)>>, <<Literal(<<":">>)>>},
     spec \in {"s", "d"}}

\* a literal and an indirect fill or width in both orders; the fills have
\* the literal width 2 behind them
BothFormats ==
  {<<Dir(0, <<Literal(<<"2">>), Indirect("kWidth", 0)>>, "s")>>,
   <<Dir(0, <<Indirect("kWidth", 0), Literal(<<"2">>)>>, "s")>>}
    \cup {<<Dir(0, <<fill, Indirect("kFill", 0), Literal(<<"2">>)>>, "s")>> :
            fill \in {Literal(<<"_", "y">>), Literal(<<"0">>)}}
    \cup {<<Dir(0, <<Indirect("kFill", 0), fill, Literal(<<"2">>)>>, "s")>> :
            fill \in {Literal(<<"_", "y">>), Literal(<<"0">>)}}

\* the modifiers space and +, and a + in the text
SignFormats ==
  {<<Dir(0, <<Literal(<<" ">>)>>, "d")>>,
   <<Dir(0, <<Literal(<<"+">>)>>, "d")>>,
   <<Dir(0, <<Literal(<<" ">>)>>, "s")>>,
   <<Dir(0, <<Literal(<<"+">>), Literal(<<" ">>)>>, "d")>>,
   <<Lit(<<"+">>), Dir(0, <<Literal(<<" ">>)>>, "d")>>,
   <<Dir(0, <<Literal(<<" ">>)>>, "d"), Dir(0, <<Literal(<<"+">>)>>, "d")>>}

ModFormats == DotFormats \cup StarFormats \cup BothFormats \cup SignFormats

\* the arguments fed to these objects
ModValues ==
  {VInt(3), VInt(-2), VBool(TRUE), VBool(FALSE), VChar("x"),
   VString(<<"+", "a", "+">>), VSignedChar(-Pow2(CharBits - 1))}

InitMods ==
  InitWith(Constructions({[mode |-> "text", pieces |-> f] : f \in ModFormats},
                         {"none"}, {"None"}, {FALSE}))

NextMods ==
  \/ \E arg \in ModValues : Feed(arg)
  \/ ReadText
  \/ OutputToString
  \/ OutputToFile
  \/ OutputToOstream

SpecMods == InitMods /\ [][NextMods]_vars

(***************************************************************************)
(* Directives with numbers: an argument number of the directive or of an   *)
(* indirect width, a literal width, a literal precision.                   *)
(***************************************************************************)
\* the numbers written: small ones, and ones beyond the range of the types
Numbers == {2, 64, 70, 78, 99, 130}

NumberFormats ==
  {<<Dir(n, <<>>, "s")>> : n \in Numbers}
    \cup {<<Dir(0, <<Indirect("kWidth", n)>>, "s")>> : n \in Numbers}
    \cup {<<Dir(0, <<Literal(NatDigits(n, 10, LowerDigits))>>, "s")>> :
            n \in Numbers}
    \cup {<<Dir(0, <<Literal(<<".">> \o NatDigits(n, 10, LowerDigits))>>,
                "s")>> :
            n \in Numbers}

InitNumbers ==
  InitWith(Constructions({[mode |-> "text", pieces |-> f] :
                            f \in NumberFormats},
                         {"none"}, {"None"}, {FALSE}))

SpecNumbers == InitNumbers /\ [][Next]_vars

(***************************************************************************)
(* Arguments bound to several kinds: one directive with two indirect       *)
(* modifiers, with and without argument numbers, and a second directive    *)
(* whose modifier takes the argument of the first.                         *)
(***************************************************************************)
KindNums == 0..2

KindFormats ==
  {<<Dir(num, <<Indirect(k1, n1), Indirect(k2, n2)>>, spec)>> :
     num \in {0, 1}, k1 \in IndirectKinds, n1 \in KindNums,
     k2 \in IndirectKinds, n2 \in KindNums, spec \in {"s", "n"}}
    \cup {<<Dir(1, <<>>, "s"), Dir(0, <<Indirect(kind, 1)>>, "s")>> :
            kind \in IndirectKinds}

InitKinds ==
  InitWith(Constructions({[mode |-> "text", pieces |-> f] :
                            f \in KindFormats},
                         {"none"}, {"None"}, {FALSE}))

SpecKinds == InitKinds /\ [][Next]_vars

(***************************************************************************)
(* Digits without $: behind the % and behind an indirect modifier, in a    *)
(* format with and without a numbered directive, and at the end of the     *)
(* format string.                                                          *)
(***************************************************************************)
WidthDigits == {<<"2">>, <<"1", "2">>}

WidthFormats ==
  {<<Dir(0, mods \o <<Literal(digits)>>, "s")>> \o tail :
     mods \in {<<>>} \cup {<<Indirect(kind, 0)>> : kind \in IndirectKinds},
     digits \in WidthDigits,
     tail \in {<<>>, <<Dir(1, <<>>, "s")>>}}
    \cup {<<Raw(<<"%">> \o mod \o digits)>> :
            mod \in {<<>>, <<"*">>, <<"/">>, <<".", "*">>, <<"~">>},
            digits \in WidthDigits}

InitWidths ==
  InitWith(Constructions({[mode |-> "text", pieces |-> f] :
                            f \in WidthFormats},
                         {"none"}, {"None"}, {FALSE}))

SpecWidths == InitWidths /\ [][Next]_vars

(***************************************************************************)
(* What a format description asks for, read off the description alone.     *)
(***************************************************************************)
IsDirective(piece) == piece.kind = "dir"
IsIndirect(mod) == mod.kind \in IndirectKinds
IsUnnumbered(mod) == mod.kind \in IndirectKinds /\ mod.num = 0

\* the directives of a description in textual order; the k-th has Manip k
Directives(pieces) == SelectSeq(pieces, IsDirective)

\* the argument numbers written in a description, 1-based
ExplicitNumbers(pieces) ==
  LET dirs == Directives(pieces)
  IN ({dirs[k].num : k \in 1..Len(dirs)}
        \cup UNION {{dirs[k].mods[j].num : j \in 1..Len(dirs[k].mods)} :
                      k \in 1..Len(dirs)})
       \ {0}

\* the argument indices, 0-based, that the description numbers explicitly
Reserved(pieces) == {n - 1 : n \in ExplicitNumbers(pieces)}

\* the references without number of the k-th directive: its indirect
\* modifiers in the order written, then its main argument
UnnumberedOf(dir, k) ==
  LET mods == SelectSeq(dir.mods, IsUnnumbered)
  IN [j \in 1..Len(mods) |-> [manip |-> k, kind |-> mods[j].kind]]
       \o (IF dir.num = 0 THEN <<[manip |-> k, kind |-> "kArg"]>> ELSE <<>>)

RECURSIVE UnnumberedFrom(_, _)
UnnumberedFrom(dirs, k) ==
  IF k > Len(dirs) THEN <<>>
  ELSE UnnumberedOf(dirs[k], k) \o UnnumberedFrom(dirs, k + 1)

\* the references without number of a description in textual order
Unnumbered(pieces) == UnnumberedFrom(Directives(pieces), 1)

\* the n-th smallest index, n >= 1, that is not reserved
FreeIndex(n, reserved) ==
  CHOOSE i \in 0..(n + Cardinality(reserved)) :
    /\ i \notin reserved
    /\ Cardinality({j \in 0..(i - 1) : j \notin reserved}) = n - 1

\* the object waits for arguments of a format string that was parsed
Waiting == parse_ # <<>> /\ ctor.mode = "text"

(***************************************************************************)
(* C1: every reference without number, an indirect modifier or a main      *)
(* argument, is bound to the smallest argument index that no directive of  *)
(* the format numbers explicitly, also no later one, and that no earlier   *)
(* reference without number got; nothing else is bound to that index.      *)
(***************************************************************************)
C1_SmallestFreeIndex ==
  Waiting =>
    \A n \in 1..Len(Unnumbered(ctor.pieces)) :
      LET ref == Unnumbered(ctor.pieces)[n]
          i == FreeIndex(n, Reserved(ctor.pieces))
      IN /\ i < Len(parse_[1].args)
         /\ parse_[1].args[i + 1] = <<References({ref.kind}, ref.manip)>>

\* "%s%1$s" was constructed: its %s waits for the second argument
C1_Witness ==
  /\ Waiting
  /\ ctor.pieces = <<Dir(0, <<>>, "s"), Dir(1, <<>>, "s")>>
  /\ nfeeds = 0
  /\ parse_[1].args[2] = <<References({"kArg"}, 1)>>

(***************************************************************************)
(* C2: in a format without explicit argument numbers every indirect        *)
(* modifier of a directive is bound to a smaller argument index than the   *)
(* main argument of that directive, and whatever is fed, the error is      *)
(* never kTooEarlyArgument.                                                *)
(***************************************************************************)
C2_ModifiersBeforeMain ==
  (ctor.mode = "text" /\ ExplicitNumbers(ctor.pieces) = {}) =>
    /\ error_ # "kTooEarlyArgument"
    /\ parse_ # <<>> =>
         \A i, j \in 1..Len(parse_[1].args) :
           \A k \in 1..Len(parse_[1].args[i]),
              l \in 1..Len(parse_[1].args[j]) :
             LET modifier == parse_[1].args[i][k]
                 main == parse_[1].args[j][l]
             IN (/\ modifier.manip = main.manip
                 /\ modifier.set_these \cap IndirectKinds # {}
                 /\ "kArg" \in main.set_these) => i < j

\* "%*/s" got a width, a fill character and a value, and is complete
C2_Witness ==
  /\ ctor.pieces
       = <<Dir(0, <<Indirect("kWidth", 0), Indirect("kFill", 0)>>, "s")>>
  /\ fed = <<VInt(3), VChar("x"), VString(<<"a">>)>>
  /\ complete
  /\ error_ = "kNone"
  /\ text_ = <<"x", "x", "a">>

(***************************************************************************)
(* Steps of operator% as the history of the run shows them.                *)
(***************************************************************************)
\* the step is object % arg
IsFeed == nfeeds' = nfeeds + 1

\* the step is object % arg on an object that waits for arguments of a
\* parsed format; Fed is arg
IsFeedWaiting == Waiting /\ IsFeed
Fed == fed'[Len(fed')]

\* the References of the argument the object waits for, *(current_arg_)
Current == parse_[1].args[parse_[1].current_arg + 1]

(***************************************************************************)
(* C3: an argument that is not a locale is fed, and the first thing it is  *)
(* bound to that is more than a plain main value is the main value of a    *)
(* Manip that still needs an indirect modifier. The feed fails at once:    *)
(* error() is kTooEarlyArgument, the success flag is false, the object     *)
(* waits no longer and is not complete; and an object that failed before   *)
(* it was complete is never complete.                                      *)
(***************************************************************************)
TooEarlyDue ==
  /\ IsFeedWaiting
  /\ Fed.type # "locale"
  /\ \E k \in 1..Len(Current) :
       /\ \A j \in 1..k : Current[j].set_these = {"kArg"}
       /\ parse_[1].format[Current[k].manip].need # {}

C3_TooEarlyArgument ==
  [][/\ TooEarlyDue =>
          /\ error_' = "kTooEarlyArgument"
          /\ success' = FALSE
          /\ parse_' = <<>>
          /\ ~complete'
     /\ (parse_ = <<>> /\ ~complete) => (parse_' = <<>> /\ ~complete')]_vars

\* "%1$*2$s" got its first argument, the value
C3_Witness ==
  /\ ctor.pieces = <<Dir(1, <<Indirect("kWidth", 2)>>, "s")>>
  /\ fed = <<VString(<<"a">>)>>
  /\ nfeeds = 1
  /\ noutputs = 0
  /\ error_ = "kTooEarlyArgument"
  /\ success = FALSE
  /\ ~complete

(***************************************************************************)
(* C4: the argument the object waits for is bound to one Manip alone, as   *)
(* its main value and as indirect modifiers, the Manip needs no modifier   *)
(* of another argument, and the fed argument has a type the modifiers      *)
(* take and that can be output. Then the feed succeeds, without            *)
(* kTooEarlyArgument, and the value is rendered by the Manip as the        *)
(* modifiers have set it.                                                  *)
(***************************************************************************)
\* arg has a type that every indirect modifier of kinds takes
Takes(kinds, arg) ==
  /\ "kLocale" \in kinds => arg.type = "locale"
  /\ kinds \cap {"kPrecision", "kWidth", "kFill"} # {} =>
       arg.type \in NumericTypes

\* the Manip with the indirect modifiers of kinds set from arg
Modified(manip, kinds, arg) ==
  [manip EXCEPT
     !.locale = IF "kLocale" \in kinds THEN TRUE ELSE @,
     !.precision = IF "kPrecision" \in kinds THEN arg.n ELSE @,
     !.width = IF "kWidth" \notin kinds THEN @
               ELSE IF arg.type \in {"int", "char"} /\ arg.n < 0 THEN -arg.n
               ELSE arg.n,
     !.fmtflags = IF /\ "kWidth" \in kinds
                     /\ arg.type \in {"int", "char"}
                     /\ arg.n < 0
                    THEN (@ \ adjustfield) \cup {"left"} ELSE @,
     !.fill = IF "kFill" \notin kinds THEN @
              ELSE IF arg.type = "char" THEN arg.s[1] ELSE CharOf(arg.n),
     !.need = @ \ kinds]

\* the Manip after it has output arg: the padded text, and width() is 0
Rendered(manip, arg) ==
  IF "kIgnore" \in manip.extensions THEN manip
  ELSE [manip EXCEPT
          !.str = @ \o Padded(ArgText(arg, manip.fmtflags), manip),
          !.width = 0]

SelfModifiedDue ==
  /\ IsFeedWaiting
  /\ Len(Current) = 1
  /\ "kArg" \in Current[1].set_these
  /\ Current[1].set_these \cap IndirectKinds # {}
  /\ parse_[1].format[Current[1].manip].need \subseteq Current[1].set_these
  /\ Takes(Current[1].set_these, Fed)
  /\ \/ Fed.type # "locale"
     \/ "kIgnore" \in parse_[1].format[Current[1].manip].extensions

\* Format::operator% changed the Manip of Current[1] to manip and did what
\* follows a successful argument
FedInto(manip) ==
  IF parse_[1].current_arg + 1 = Len(parse_[1].args)
    THEN /\ complete'
         /\ error_' = "kNone"
         /\ success' = TRUE
         /\ text_' = Assemble(text_, parse_[1].borders,
                              [parse_[1].format EXCEPT
                                 ![Current[1].manip] = manip],
                              1, 0, <<>>)
    ELSE /\ ~complete'
         /\ error_' = "kTooFewArguments"
         /\ parse_' # <<>>
         /\ parse_'[1].current_arg = parse_[1].current_arg + 1
         /\ parse_'[1].format
              = [parse_[1].format EXCEPT ![Current[1].manip] = manip]

C4_ModifiersBeforeValue ==
  [][SelfModifiedDue =>
       FedInto(Rendered(Modified(parse_[1].format[Current[1].manip],
                                 Current[1].set_these \cap IndirectKinds,
                                 Fed),
                        Fed))]_vars

\* "%1$*1$d" got 3 and is complete
C4_Witness ==
  /\ ctor.pieces = <<Dir(1, <<Indirect("kWidth", 1)>>, "d")>>
  /\ fed = <<VInt(3)>>
  /\ complete
  /\ error_ = "kNone"
  /\ text_ = <<" ", " ", "3">>

(***************************************************************************)
(* C5: every operation that reads or outputs the text of an object that    *)
(* still waits for arguments (str(), c_str(), size(), empty(),             *)
(* StringReference(), Output() to a string, a FILE or an ostream) leaves   *)
(* error() == kTooFewArguments and the success flag false.                 *)
(***************************************************************************)
\* the step is one of the reading methods or an Output()
IsReadOrOutput == nfeeds' = nfeeds

C5_UnderfedFails ==
  [][(parse_ # <<>> /\ IsReadOrOutput) =>
       (error_' = "kTooFewArguments" /\ success' = FALSE)]_vars

(***************************************************************************)
(* C6: an argument fed to an object that is complete and has no error      *)
(* (a parsed format with all its arguments, a format without directive,    *)
(* the implicit %s with its argument) gives error() == kTooManyArguments   *)
(* and the success flag false; the text and what was output stay as they   *)
(* are.                                                                    *)
(***************************************************************************)
C6_TooManyArguments ==
  [][(IsFeed /\ complete /\ error_ = "kNone") =>
       /\ error_' = "kTooManyArguments"
       /\ success' = FALSE
       /\ text_' = text_
       /\ out' = out
       /\ complete']_vars

\* the implicit %s got two arguments
C6_Witness ==
  /\ ctor.mode = "true"
  /\ fed = <<VString(<<"a">>)>>
  /\ nfeeds = 2
  /\ noutputs = 0
  /\ complete
  /\ error_ = "kTooManyArguments"
  /\ success = FALSE
  /\ text_ = <<"a">>

(***************************************************************************)
(* C7: once error() is one of the codes of a syntax error of the format    *)
(* string, which the constructor alone sets, no operation (an argument,    *)
(* a reading method, Output() to a string, a FILE or an ostream) changes   *)
(* error() or sets the success flag to true.                               *)
(***************************************************************************)
C7_SyntaxErrorPermanent ==
  [][(error_ \in SyntaxErrors) =>
       (error_' = error_ /\ success' = FALSE)]_vars

(***************************************************************************)
(* C8: the number of arguments an object of a valid format waits for is    *)
(* the number of argument indices with at least one binding in args_, so   *)
(* that every argument it takes is bound to some directive.                *)
(***************************************************************************)
C8_ArgumentsAreBound ==
  (Waiting /\ nfeeds = 0) =>
    Len(parse_[1].args)
      = Cardinality({i \in 1..Len(parse_[1].args) : parse_[1].args[i] # <<>>})

(***************************************************************************)
(* The text of a description whose directives take all their indirect      *)
(* modifiers from the argument of their main value: format[k] is the Manip *)
(* of the k-th directive as the parser left it, values[k] its argument.    *)
(***************************************************************************)
IndirectKindsOf(dir) ==
  {dir.mods[j].kind : j \in {i \in 1..Len(dir.mods) : IsIndirect(dir.mods[i])}}

RECURSIVE ExpectedText(_, _, _, _)
ExpectedText(pieces, format, k, values) ==
  IF pieces = <<>> THEN <<>>
  ELSE IF pieces[1].kind = "dir"
    THEN ManipResult(Rendered(Modified(format[k], IndirectKindsOf(pieces[1]),
                                       values[k]),
                              values[k]))
           \o ExpectedText(Tail(pieces), format, k + 1, values)
  ELSE (IF pieces[1].kind = "pct" THEN <<"%">> ELSE pieces[1].tail)
         \o ExpectedText(Tail(pieces), format, k, values)

(***************************************************************************)
(* C9: every directive of the format and every indirect modifier has the   *)
(* argument number 1, and the argument fed has a type the modifiers take   *)
(* and that can be output. Then the object is complete after this one      *)
(* argument, and its text has the argument rendered by every directive,    *)
(* each with its own modifiers.                                            *)
(***************************************************************************)
AllNumberOne(pieces) ==
  /\ Directives(pieces) # <<>>
  /\ ExplicitNumbers(pieces) = {1}
  /\ Unnumbered(pieces) = <<>>

ReuseDue ==
  /\ IsFeedWaiting
  /\ AllNumberOne(ctor.pieces)
  /\ Fed.type # "locale"
  /\ \A k \in 1..Len(Directives(ctor.pieces)) :
       Takes(IndirectKindsOf(Directives(ctor.pieces)[k]), Fed)

C9_NumberReused ==
  [][ReuseDue =>
       /\ fed' = <<Fed>>
       /\ complete'
       /\ error_' = "kNone"
       /\ success' = TRUE
       /\ text_' = ExpectedText(ctor.pieces, parse_[1].format, 1,
                                [k \in 1..Len(parse_[1].format) |-> Fed])]_vars

\* "%1$s=%1$#x" got 3 and is complete
C9_Witness ==
  /\ ctor.pieces
       = <<Dir(1, <<>>, "s"), Lit(<<"=">>), Dir(1, <<Literal(<<"#">>)>>, "x")>>
  /\ fed = <<VInt(3)>>
  /\ nfeeds = 1
  /\ complete
  /\ error_ = "kNone"
  /\ text_ = <<"3", "=", "0", "x", "3">>

(***************************************************************************)
(* C10: in a format of text, %% and %s, at every position of the %%        *)
(* (first, between text, before a directive, before the letter s, last),   *)
(* each %% is one % of the text, the object waits for as many arguments    *)
(* as there are %s, the borders of the directives are where the            *)
(* directives are in the text with % for %%, and the complete text has     *)
(* every piece in its place.                                               *)
(***************************************************************************)
PlainPieces(pieces) ==
  \A k \in 1..Len(pieces) :
    \/ pieces[k].kind \in {"lit", "pct"}
    \/ pieces[k] = Dir(0, <<>>, "s")

\* the format string with % for every %%
RECURSIVE Collapsed(_)
Collapsed(pieces) ==
  IF pieces = <<>> THEN <<>>
  ELSE (IF pieces[1].kind = "pct" THEN <<"%">> ELSE PieceText(pieces[1]))
         \o Collapsed(Tail(pieces))

\* begin and end of every directive in Collapsed(pieces), from position pos
RECURSIVE ExpectedBorders(_, _)
ExpectedBorders(pieces, pos) ==
  IF pieces = <<>> THEN <<>>
  ELSE IF pieces[1].kind = "dir"
    THEN <<pos, pos + Len(PieceText(pieces[1]))>>
           \o ExpectedBorders(Tail(pieces), pos + Len(PieceText(pieces[1])))
  ELSE ExpectedBorders(Tail(pieces),
                       pos + Len(Collapsed(<<pieces[1]>>)))

C10_PercentPercent ==
  (ctor.mode = "text" /\ PlainPieces(ctor.pieces)) =>
    /\ Directives(ctor.pieces) = <<>> => complete
    /\ parse_ # <<>> =>
         /\ Len(parse_[1].args) = Len(Directives(ctor.pieces))
         /\ text_ = Collapsed(ctor.pieces)
         /\ parse_[1].borders = ExpectedBorders(ctor.pieces, 0)
    /\ complete =>
         /\ Len(fed) = Len(Directives(ctor.pieces))
         /\ text_ = ExpectedText(ctor.pieces,
                                 [k \in 1..Len(fed) |-> ManipNew], 1, fed)

\* "%%%s%%" got its one argument and is complete
C10_Witness ==
  /\ ctor.pieces = <<Pct, Dir(0, <<>>, "s"), Pct>>
  /\ fed = <<VString(<<"a">>)>>
  /\ nfeeds = 1
  /\ complete
  /\ error_ = "kNone"
  /\ text_ = <<"%", "a", "%">>

(***************************************************************************)
(* C11: an object of a format string without % and without the newline     *)
(* flag is complete from its construction on and never waits for an        *)
(* argument, its text is the format string as it was given, and behind     *)
(* the constructor error() is kNone and the success flag true, unless the  *)
(* write to the FILE or ostream of the constructor failed.                 *)
(***************************************************************************)
NoPercent(pieces) == \A k \in 1..Len(pieces) : pieces[k].kind = "lit"

C11_PlainText ==
  (ctor.mode = "text" /\ NoPercent(ctor.pieces) /\ "kNewline" \notin flags_) =>
    /\ complete
    /\ parse_ = <<>>
    /\ fed = <<>>
    /\ text_ = FormatText(ctor.pieces)
    /\ (nfeeds = 0 /\ noutputs = 0) =>
         \/ error_ = "kNone" /\ success
         \/ /\ ctor.sink \in {"file", "ostream"}
            /\ error_ = "kWriteFailed"
            /\ out[ctor.sink] = <<>>

\* "as" was constructed with a string to append to
C11_Witness ==
  /\ ctor.pieces = <<Lit(<<"a">>), Lit(<<"s">>)>>
  /\ ctor.sink = "string"
  /\ ctor.special = "None"
  /\ nfeeds = 0
  /\ noutputs = 0
  /\ complete
  /\ error_ = "kNone"
  /\ text_ = <<"a", "s">>
  /\ out.string = <<"a", "s">>

(***************************************************************************)
(* C12: no operation on a complete object changes its text: a reading      *)
(* method returns it and every Output() appends just this text to its      *)
(* sink, or nothing when the write fails. FinishInsertingArgs runs at      *)
(* most once for an object; the text of a complete object has the one      *)
(* newline of the newline flag at its end, and none without the flag.      *)
(***************************************************************************)
Newlines(text) == Cardinality({k \in 1..Len(text) : text[k] = "\n"})

C12_RenderedOnce ==
  /\ [][complete =>
          /\ complete'
          /\ text_' = text_
          /\ assembled' = assembled
          /\ \A sink \in {"string", "file", "ostream"} :
               out'[sink] \in {out[sink], out[sink] \o text_}
          /\ IsFeed => out' = out]_vars
  /\ [](/\ assembled <= 1
        /\ complete =>
             IF "kNewline" \in flags_
               THEN Newlines(text_) = 1 /\ text_[Len(text_)] = "\n"
               ELSE Newlines(text_) = 0)

\* "%s" with Special::Newline() and a string to append to got "a", and
\* Output() appended the text to the string once more
C12_Witness ==
  /\ ctor.pieces = <<Dir(0, <<>>, "s")>>
  /\ ctor.mode = "text"
  /\ ctor.sink = "string"
  /\ ctor.special = "Newline"
  /\ fed = <<VString(<<"a">>)>>
  /\ noutputs = 1
  /\ assembled = 1
  /\ text_ = <<"a", "\n">>
  /\ out.string = <<"a", "\n", "a", "\n">>

(***************************************************************************)
(* C13: the copy of an object that waits for arguments has error()         *)
(* kTooFewArguments and is not complete, and every operation on it         *)
(* (an argument, a reading method, Output()) leaves it so, with the        *)
(* success flag false, and an argument leaves its text; the copy of a      *)
(* complete object has the text of the original.                           *)
(***************************************************************************)
\* the step is the copy of the object
IsCopy == ctor.mode # "copy" /\ ctor'.mode = "copy"

\* the object is the copy of an object that waited for arguments
UnderfedCopy ==
  ctor.mode = "copy" /\ ~complete /\ error_ = "kTooFewArguments"

C13_CopyUnderfed ==
  [][/\ (IsCopy /\ parse_ # <<>>) =>
          (error_' = "kTooFewArguments" /\ ~complete' /\ parse_' = <<>>)
     /\ (IsCopy /\ complete) => (complete' /\ text_' = text_)
     /\ UnderfedCopy =>
          /\ error_' = "kTooFewArguments"
          /\ success' = FALSE
          /\ ~complete'
          /\ IsFeed => text_' = text_]_vars

(***************************************************************************)
(* C14: an object that reports errors and waits for arguments has error()  *)
(* kTooFewArguments and the success flag false, from its construction on   *)
(* and behind every successful argument but the last of the n it needs;    *)
(* the n-th successful argument completes it, and then error() is kNone    *)
(* and the success flag true when the object has no sink or a string.      *)
(***************************************************************************)
\* the number of arguments the waiting object needs in all
Needed == IF parse_[1].simple THEN 1 ELSE Len(parse_[1].args)

C14_ErrorUntilFed ==
  /\ [](parse_ # <<>> =>
          /\ error_ = "kTooFewArguments"
          /\ success = FALSE
          /\ ~complete
          /\ Len(fed) < Needed
          /\ ~parse_[1].simple => parse_[1].current_arg = Len(fed))
  /\ [][(parse_ # <<>> /\ IsFeed /\ (parse_' # <<>> \/ complete')) =>
          IF Len(fed') = Needed
            THEN /\ complete'
                 /\ ctor.sink \in {"none", "string"} =>
                      (error_' = "kNone" /\ success' = TRUE)
            ELSE /\ parse_' # <<>>
                 /\ error_' = "kTooFewArguments"
                 /\ success' = FALSE]_vars

\* "%s%s" with a string to append to got its two arguments
C14_Witness ==
  /\ ctor.pieces = <<Dir(0, <<>>, "s"), Dir(0, <<>>, "s")>>
  /\ ctor.sink = "string"
  /\ ctor.special = "None"
  /\ fed = <<VString(<<"a">>), VInt(3)>>
  /\ nfeeds = 2
  /\ noutputs = 0
  /\ complete
  /\ error_ = "kNone"
  /\ success = TRUE
  /\ out.string = <<"a", "3">>

(***************************************************************************)
(* C15: a directive whose . is followed by its specifier, %.s or %.f, also *)
(* as the last characters of the format string, is parsed without error:   *)
(* the object waits for its argument, the precision of the Manip is 0 and  *)
(* its flags are those of the specifier, and the directive ends behind     *)
(* the specifier.                                                          *)
(***************************************************************************)
DanglingDot(pieces) ==
  /\ pieces # <<>>
  /\ pieces[1].kind = "dir"
  /\ pieces[1].mods = <<Literal(<<".">>)>>

C15_DanglingDot ==
  (ctor.mode = "text" /\ DanglingDot(ctor.pieces) /\ nfeeds = 0 /\ noutputs = 0)
    => /\ error_ = "kTooFewArguments"
       /\ parse_ # <<>>
       /\ Len(parse_[1].format) = 1
       /\ parse_[1].format[1].precision = 0
       /\ parse_[1].format[1].fmtflags
            = SpecifierSetf(ManipNew.fmtflags, ctor.pieces[1].tail[1])
       /\ parse_[1].borders = <<0, 3>>

(***************************************************************************)
(* C16: a format string with a run of digits whose value is beyond the     *)
(* maximum of the type it is parsed into (an argument number into          *)
(* size_type, a literal width or precision into std::streamsize, both      *)
(* NumberBits wide) fails with kNumberOverflow in the constructor, so that *)
(* no object waits for arguments with a value that wrapped around.         *)
(***************************************************************************)
\* the maximum of the type T of ParseNumber
MaxNumber(T) ==
  IF T = "streamsize" THEN Pow2(NumberBits - 1) - 1 ELSE Pow2(NumberBits) - 1

\* the value of the digits of a literal width or precision
RECURSIVE DigitsValue(_, _)
DigitsValue(text, value) ==
  IF text = <<>> THEN value
  ELSE IF IsDigit(text[1])
    THEN DigitsValue(Tail(text), (value * 10) + DigitValue(text[1]))
  ELSE DigitsValue(Tail(text), value)

\* some number of the first directive is beyond the range of its type
Overflows(pieces) ==
  /\ pieces # <<>>
  /\ pieces[1].kind = "dir"
  /\ \/ pieces[1].num > MaxNumber("size_type")
     \/ \E j \in 1..Len(pieces[1].mods) :
          IF IsIndirect(pieces[1].mods[j])
            THEN pieces[1].mods[j].num > MaxNumber("size_type")
            ELSE DigitsValue(pieces[1].mods[j].text, 0)
                   > MaxNumber("streamsize")

C16_OverflowFailsClosed ==
  (ctor.mode = "text" /\ nfeeds = 0 /\ noutputs = 0 /\ Overflows(ctor.pieces))
    => (error_ = "kNumberOverflow" /\ parse_ = <<>>)

(***************************************************************************)
(* C17: the argument that the object waits for is bound as the indirect    *)
(* width of a Manip and nothing else, and it is fed a value w of a signed  *)
(* integer type or a bool. Then the width of the Manip becomes the         *)
(* absolute value of w; the alignment becomes left when w < 0 and stays    *)
(* as the format string chose it otherwise; a bool is the width 0 or 1.    *)
(***************************************************************************)
Abs(n) == IF n < 0 THEN -n ELSE n

WidthDue ==
  /\ IsFeedWaiting
  /\ Len(Current) = 1
  /\ Current[1].set_these = {"kWidth"}
  /\ Fed.type \in {"int", "signed char", "bool"}
  /\ parse_[1].current_arg + 1 < Len(parse_[1].args)

C17_WidthArgument ==
  [][WidthDue =>
       /\ parse_' # <<>>
       /\ parse_'[1].format[Current[1].manip].width = Abs(Fed.n)
       /\ parse_'[1].format[Current[1].manip].fmtflags
            = IF Fed.n < 0
                THEN (parse_[1].format[Current[1].manip].fmtflags
                        \ adjustfield) \cup {"left"}
                ELSE parse_[1].format[Current[1].manip].fmtflags]_vars

(***************************************************************************)
(* C18: a directive has a literal fill character (_c or 0) and a fill      *)
(* character from an argument, or a literal width and a width from an      *)
(* argument, in either order. When the object is complete, the value       *)
(* is padded with the fill character, or to the width, that the argument   *)
(* gave; the literal one has no effect.                                    *)
(***************************************************************************)
\* the kind of the one indirect modifier of the directive
IndirectKindOf(dir) == CHOOSE kind \in IndirectKindsOf(dir) : TRUE

\* the Manip of a directive of BothFormats without its overridden literal
\* modifier: fills are tried at the literal width 2
Unmodified(dir) ==
  [ManipNew EXCEPT !.width = IF IndirectKindOf(dir) = "kFill" THEN 2 ELSE @]

C18_IndirectOverLiteral ==
  (ctor.mode = "text" /\ ctor.pieces \in BothFormats /\ complete
     /\ Len(fed) = 2) =>
    text_ = ManipResult(
              Rendered(SetKind(IndirectKindOf(ctor.pieces[1]),
                               Unmodified(ctor.pieces[1]), fed[1]).manip,
                       fed[2]))

\* "%_y/2s" got the fill character x and the value 3
C18_Witness ==
  /\ ctor.pieces
       = <<Dir(0, <<Literal(<<"_", "y">>), Indirect("kFill", 0),
                    Literal(<<"2">>)>>, "s")>>
  /\ fed = <<VChar("x"), VInt(3)>>
  /\ complete
  /\ error_ = "kNone"
  /\ text_ = <<"x", "3">>

(***************************************************************************)
(* C19: in the text of a complete object every directive with the          *)
(* modifier space stands for what its Manip has rendered with the first +  *)
(* replaced by a space, and later + of that Manip kept; the text of the    *)
(* format string and what a Manip without the modifier space has rendered  *)
(* are as they were.                                                       *)
(***************************************************************************)
HasSpace(dir) == \E j \in 1..Len(dir.mods) : dir.mods[j] = Literal(<<" ">>)

FirstPlusToSpace(text) ==
  LET plus == {k \in 1..Len(text) : text[k] = "+"}
  IN IF plus = {} THEN text
     ELSE [text EXCEPT ![CHOOSE k \in plus : \A j \in plus : k <= j] = " "]

\* what the Manip of the directive dir renders of arg
RenderedBy(dir, arg) ==
  Rendered(ParseFormat(PieceText(dir)).format[1], arg).str

\* the text for pieces, the k-th directive having got values[k]
RECURSIVE SignText(_, _, _)
SignText(pieces, k, values) ==
  IF pieces = <<>> THEN <<>>
  ELSE IF pieces[1].kind = "dir"
    THEN (IF HasSpace(pieces[1])
            THEN FirstPlusToSpace(RenderedBy(pieces[1], values[k]))
            ELSE RenderedBy(pieces[1], values[k]))
           \o SignText(Tail(pieces), k + 1, values)
  ELSE pieces[1].tail \o SignText(Tail(pieces), k, values)

C19_SpaceForPlus ==
  (ctor.mode = "text" /\ ctor.pieces \in SignFormats /\ complete
     /\ Len(fed) = Len(Directives(ctor.pieces))) =>
    text_ = SignText(ctor.pieces, 1, fed)

\* "% d%+d" got 3 and 3
C19_Witness ==
  /\ ctor.pieces
       = <<Dir(0, <<Literal(<<" ">>)>>, "d"), Dir(0, <<Literal(<<"+">>)>>, "d")>>
  /\ fed = <<VInt(3), VInt(3)>>
  /\ complete
  /\ error_ = "kNone"
  /\ text_ = <<" ", "3", "+", "3">>

(***************************************************************************)
(* C20: an object constructed without format string, or with the format    *)
(* true, behaves under arguments as the object of the format "%s" with     *)
(* the same sink and flags: the two start alike, and every argument fed    *)
(* to both leaves them alike, with the same error(), success flag and      *)
(* output and, once complete, the same text; so both are complete with     *)
(* the same text after the first argument that can be output, and both     *)
(* answer an argument fed to the complete object with kTooManyArguments.   *)
(***************************************************************************)
\* the object of "%s" in the state of the object o of the implicit %s:
\* until it is complete its text is the format string, not the empty
\* string, and while it waits its Parse is the parsed one; assembled, the
\* count of FinishInsertingArgs runs, is left out
Twin(o) ==
  [o EXCEPT
     !.text_ = IF o.complete THEN @ ELSE <<"%", "s">>,
     !.parse_ = IF @ = <<>> THEN @
                ELSE <<[ParseObject(FALSE, o.parse_[1].sink) EXCEPT
                          !.format = ParseFormat(<<"%", "s">>).format,
                          !.borders = ParseFormat(<<"%", "s">>).borders,
                          !.args = ParseFormat(<<"%", "s">>).args]>>,
     !.assembled = 0]

Alike(o, twin) == Twin(o) = [twin EXCEPT !.assembled = 0]

C20_ImplicitPercentS ==
  /\ []((ctor.mode = "true" /\ parse_ # <<>> /\ nfeeds = 0) =>
          \E io \in IoOutcomes :
            Alike(Obj, Construct([ctor EXCEPT
                                    !.mode = "text",
                                    !.pieces = <<Dir(0, <<>>, "s")>>],
                                 io)))
  /\ [][(ctor.mode = "true" /\ IsFeed) =>
          /\ \E arg \in Values, io \in IoOutcomes :
               /\ parse_ # <<>> => arg = Fed
               /\ Alike(Obj', Percent(Twin(Obj), arg, io))
          /\ (parse_ # <<>> /\ Fed.type # "locale") => complete'
          /\ (complete /\ error_ = "kNone") =>
               error_' = "kTooManyArguments"]_vars

\* the object without format string and with a string to append to got 3
\* and another argument
C20_Witness ==
  /\ ctor.mode = "true"
  /\ ctor.sink = "string"
  /\ ctor.special = "None"
  /\ fed = <<VInt(3)>>
  /\ nfeeds = 2
  /\ noutputs = 0
  /\ complete
  /\ error_ = "kTooManyArguments"
  /\ text_ = <<"3">>
  /\ out.string = <<"3">>

(***************************************************************************)
(* C21: an object constructed with Special::Flush() has flush() == true    *)
(* and, once complete, a text without newline; an object constructed with  *)
(* Special::Newline() has flush() == false and, once complete, a text      *)
(* that ends with its one newline.                                         *)
(***************************************************************************)
C21_FlushAlone ==
  /\ ctor.special = "Flush" =>
       /\ Flush(Obj)
       /\ complete => Newlines(text_) = 0
  /\ ctor.special = "Newline" =>
       /\ ~Flush(Obj)
       /\ complete => (Newlines(text_) = 1 /\ text_[Len(text_)] = "\n")

(***************************************************************************)
(* C22: the class fixes the sink. An object of Print or Say writes nothing *)
(* to stderr, and the result it has after its last argument is what stdout *)
(* got; an object of PrintError or SayError writes nothing to stdout, and  *)
(* the result is what stderr got; an object of SayError has the flags      *)
(* kNewline and kFlush.                                                    *)
(***************************************************************************)
\* the result of the object went to the FILE own, nothing to other
WritesTo(own, other) ==
  /\ out[other] = <<>>
  /\ (complete /\ noutputs = 0 /\ error_ = "kNone") => out[own] = text_

C22_SinkOfClass ==
  /\ ctor.class \in {"Print", "Say"} => WritesTo("stdout", "stderr")
  /\ ctor.class \in {"PrintError", "SayError"} =>
       WritesTo("stderr", "stdout")
  /\ ctor.class = "SayError" => flags_ = {"kNewline", "kFlush"}

(***************************************************************************)
(* C23: while error() is the code of a failed argument (a modifier         *)
(* argument of the wrong type, a locale as main value, an argument that    *)
(* came too early), object % arg changes nothing: error(), the success     *)
(* flag, the text and what the sinks got stay as they are, and the object  *)
(* waits for no argument.                                                  *)
(***************************************************************************)
ArgumentErrors ==
  {"kLocaleArgIsNoLocale", "kPrecisionArgIsNotNumeric",
   "kWidthArgIsNotNumeric", "kFillArgIsNotChar", "kLocaleMustNotBeOutput",
   "kTooEarlyArgument"}

FailCode(kinds, arg) ==
  IF "kLocale" \in kinds /\ arg.type # "locale" THEN "kLocaleArgIsNoLocale"
  ELSE IF "kPrecision" \in kinds /\ arg.type \notin NumericTypes
    THEN "kPrecisionArgIsNotNumeric"
  ELSE IF "kWidth" \in kinds /\ arg.type \notin NumericTypes
    THEN "kWidthArgIsNotNumeric"
  ELSE IF "kFill" \in kinds /\ arg.type \notin NumericTypes
    THEN "kFillArgIsNotChar"
  ELSE IF "kArg" \in kinds /\ arg.type = "locale"
    THEN "kLocaleMustNotBeOutput"
  ELSE "kNone"

\* every kind the argument the object waits for is bound to
BoundKinds == UNION {Current[k].set_these : k \in 1..Len(Current)}

IsFeedParsed == IsFeedWaiting /\ ~parse_[1].simple

C24_FirstKindOfAll ==
  [][/\ nfeeds = 0 => error_ \notin ArgumentErrors
     /\ (IsFeedParsed /\ FailCode(BoundKinds, Fed) # "kNone") =>
          error_' = FailCode(BoundKinds, Fed)]_vars

\* what the Manip of refs[k] still needs when the main value of refs[k] is
\* due: the modifiers that no binding up to refs[k] gives it
NeedAt(refs, k) ==
  parse_[1].format[refs[k].manip].need
    \ UNION {refs[j].set_these :
               j \in {i \in 1..k : refs[i].manip = refs[k].manip}}

\* the code of the first failure when the bindings refs[k], refs[k+1], ...
\* of arg are gone through in their order, each with its kinds in the order
\* Locale, Precision, Width, Fill, MainArg; a main value fails as too early
\* before its type counts, and %n takes every main value
RECURSIVE FirstFailure(_, _, _)
FirstFailure(refs, k, arg) ==
  IF k > Len(refs) THEN "kNone"
  ELSE IF FailCode(refs[k].set_these \cap IndirectKinds, arg) # "kNone"
    THEN FailCode(refs[k].set_these \cap IndirectKinds, arg)
  ELSE IF "kArg" \notin refs[k].set_these THEN FirstFailure(refs, k + 1, arg)
  ELSE IF NeedAt(refs, k) # {} THEN "kTooEarlyArgument"
  ELSE IF "kIgnore" \in parse_[1].format[refs[k].manip].extensions
    THEN FirstFailure(refs, k + 1, arg)
  ELSE IF FailCode({"kArg"}, arg) # "kNone" THEN FailCode({"kArg"}, arg)
  ELSE FirstFailure(refs, k + 1, arg)

\* C24 as amended: the bindings of the argument are gone through in the
\* order of the binding table, and the kinds in their order within each
C24_FirstKindInOrder ==
  [][/\ nfeeds = 0 => error_ \notin ArgumentErrors
     /\ IsFeedParsed =>
          IF FirstFailure(Current, 1, Fed) # "kNone"
            THEN /\ error_' = FirstFailure(Current, 1, Fed)
                 /\ ~success'
                 /\ ~complete'
            ELSE error_' \notin ArgumentErrors]_vars

\* "%1$~1$*1$s" got a string: the locale fails before the width
C24_Witness ==
  /\ ctor.pieces
       = <<Dir(1, <<Indirect("kLocale", 1), Indirect("kWidth", 1)>>, "s")>>
  /\ fed = <<VString(<<"a">>)>>
  /\ nfeeds = 1
  /\ error_ = "kLocaleArgIsNoLocale"
  /\ ~success

(***************************************************************************)
(* C25: in the table of an object that waits for arguments, the list of    *)
(* every argument index has at most one entry for a Manip, and the flags   *)
(* of the entry are the kinds with which the format string refers that     *)
(* index to that Manip, all of them and no other.                          *)
(***************************************************************************)
\* the number of references without number in the directives before the
\* k-th
UnnumberedBefore(dirs, k) ==
  Len(UnnumberedFrom(dirs, 1)) - Len(UnnumberedFrom(dirs, k))

\* the argument index, 0-based, of the j-th modifier of the k-th directive
IndexOfMod(pieces, k, j) ==
  LET dirs == Directives(pieces)
      mods == dirs[k].mods
  IN IF mods[j].num # 0 THEN mods[j].num - 1
     ELSE FreeIndex(UnnumberedBefore(dirs, k)
                      + Len(SelectSeq(SubSeq(mods, 1, j), IsUnnumbered)),
                    Reserved(pieces))

\* the argument index, 0-based, of the main argument of the k-th directive
IndexOfMain(pieces, k) ==
  LET dirs == Directives(pieces)
  IN IF dirs[k].num # 0 THEN dirs[k].num - 1
     ELSE FreeIndex(UnnumberedBefore(dirs, k)
                      + Len(SelectSeq(dirs[k].mods, IsUnnumbered)) + 1,
                    Reserved(pieces))

\* the kinds with which the description refers the index i to the Manip k
KindsReferring(pieces, i, k) ==
  LET mods == Directives(pieces)[k].mods
  IN {mods[j].kind :
        j \in {n \in 1..Len(mods) :
                 IsIndirect(mods[n]) /\ IndexOfMod(pieces, k, n) = i}}
       \cup (IF IndexOfMain(pieces, k) = i THEN {"kArg"} ELSE {})

C25_OneEntryPerManip ==
  Waiting =>
    \A i \in 1..Len(parse_[1].args) :
      LET list == parse_[1].args[i]
      IN \A k \in 1..Len(list) :
           /\ \A l \in 1..Len(list) : list[l].manip = list[k].manip => l = k
           /\ list[k].manip \in 1..Len(Directives(ctor.pieces))
           /\ list[k].set_these
                = KindsReferring(ctor.pieces, i - 1, list[k].manip)

\* "%1$*1$/1$s" was constructed: the one entry of argument 1 has the width,
\* the fill and the main value of its Manip
C25_Witness ==
  /\ Waiting
  /\ nfeeds = 0
  /\ ctor.pieces
       = <<Dir(1, <<Indirect("kWidth", 1), Indirect("kFill", 1)>>, "s")>>
  /\ parse_[1].args = <<<<References({"kArg", "kWidth", "kFill"}, 1)>>>>

(***************************************************************************)
(* C26: no reference of the format string is missing in the table: every   *)
(* index the format refers to a Manip is in the table with an entry of     *)
(* that Manip, the main argument of every directive is bound at one index  *)
(* alone, and an object that is complete has got the argument of the main  *)
(* value of every directive.                                               *)
(***************************************************************************)
\* the indices whose list binds the main value of the Manip k
MainIndices(args, k) ==
  {i \in 1..Len(args) :
     \E l \in 1..Len(args[i]) :
       args[i][l].manip = k /\ "kArg" \in args[i][l].set_these}

C26_NoReferenceDropped ==
  ctor.mode = "text" =>
    \A k \in 1..Len(Directives(ctor.pieces)) :
      /\ parse_ # <<>> =>
           /\ Cardinality(MainIndices(parse_[1].args, k)) = 1
           /\ \A i \in 0..MaxArgNum :
                KindsReferring(ctor.pieces, i, k) # {} =>
                  /\ i < Len(parse_[1].args)
                  /\ \E l \in 1..Len(parse_[1].args[i + 1]) :
                       parse_[1].args[i + 1][l].manip = k
      /\ complete => IndexOfMain(ctor.pieces, k) < Len(fed)

(***************************************************************************)
(* C27: in an object that is complete no Manip has a modifier bound to an  *)
(* argument behind the argument of its main value: such a run has failed   *)
(* with kTooEarlyArgument when the main value came.                        *)
(***************************************************************************)
C27_ModifiersNotLater ==
  (ctor.mode = "text" /\ complete) =>
    \A k \in 1..Len(Directives(ctor.pieces)) :
      \A i \in 0..MaxArgNum :
        KindsReferring(ctor.pieces, i, k) \cap IndirectKinds # {} =>
          i <= IndexOfMain(ctor.pieces, k)

(***************************************************************************)
(* C28: the string, FILE or ostream given to the constructor gets the      *)
(* result once, when the object becomes complete: behind the constructor   *)
(* of a format without arguments, or in the feed of the last argument.     *)
(* Before, and in an object that failed before it was complete, it has got *)
(* nothing; no other feed writes, also none that is one argument too many. *)
(* (A write that the FILE or the ostream refuses, kWriteFailed, leaves the *)
(* sink without the result.)                                               *)
(***************************************************************************)
\* what the sink of the constructor has got, until Output() is called
SinkHasResult ==
  (ctor.sink # "none" /\ noutputs = 0) =>
    /\ out[ctor.sink]
         = IF complete /\ error_ # "kWriteFailed" THEN text_ ELSE <<>>
    /\ \A sink \in DOMAIN out : sink # ctor.sink => out[sink] = <<>>

C28_SinkOnce ==
  [][/\ SinkHasResult
     /\ SinkHasResult'
     /\ IsFeed =>
          \/ out' = out
          \/ /\ ~complete
             /\ complete'
             /\ ctor.sink # "none"
             /\ out' = [out EXCEPT ![ctor.sink] = @ \o text_']]_vars

\* "a%s" with a string got its argument and one more: the string has the
\* result once
C28_Witness ==
  /\ ctor.sink = "string"
  /\ ctor.pieces = <<Lit(<<"a">>), Dir(0, <<>>, "s")>>
  /\ fed = <<VString(<<"a">>)>>
  /\ nfeeds = 2
  /\ noutputs = 0
  /\ error_ = "kTooManyArguments"
  /\ out.string = <<"a", "a">>

(***************************************************************************)
(* C29: str(), c_str(), size(), empty() or StringReference() on an object  *)
(* that waits for arguments deletes its Parse: error() is                  *)
(* kTooFewArguments, the success flag is false. From then on the object    *)
(* has no Parse and is never complete, its text stays the format string,   *)
(* and no argument fed is applied: a feed changes neither the text nor a   *)
(* sink, and while error() is kTooFewArguments it changes nothing.         *)
(***************************************************************************)
\* the step is a reading method
IsRead == nfeeds' = nfeeds /\ noutputs' = noutputs

\* the object was read, or failed, before it was complete
Discarded == parse_ = <<>> /\ ~complete

C29_PrematureRead ==
  [][/\ (IsRead /\ parse_ # <<>>) =>
          /\ Discarded'
          /\ error_' = "kTooFewArguments"
          /\ ~success'
          /\ UNCHANGED <<text_, out>>
     /\ Discarded =>
          /\ Discarded'
          /\ text_' = text_
          /\ IsFeed => out' = out
          /\ (IsFeed /\ error_ = "kTooFewArguments") =>
               UNCHANGED <<error_, success>>]_vars

\* "%s%s" with a string as sink got an argument, was read, and got another
\* argument
C29_Witness ==
  /\ ctor.sink = "string"
  /\ ctor.pieces = <<Dir(0, <<>>, "s"), Dir(0, <<>>, "s")>>
  /\ fed = <<VString(<<"a">>)>>
  /\ nfeeds = 2
  /\ noutputs = 0
  /\ error_ = "kTooFewArguments"
  /\ Discarded
  /\ text_ = <<"%", "s", "%", "s">>
  /\ out.string = <<>>

(***************************************************************************)
(* C30: error() is never kNumberWithoutDollar. Digits without $ behind     *)
(* the % or behind *, /, .* or ~ are the width of the directive: the       *)
(* format is valid, the Manip has that width, and the modifier before the  *)
(* digits is bound, like every reference without number, to the smallest   *)
(* free argument index. Digits at the end of the format string are a       *)
(* missing specifier.                                                      *)
(***************************************************************************)
\* the j-th modifier of the directive is a run of digits
IsDigits(dir, j) ==
  /\ dir.mods[j].kind = "literal"
  /\ \A n \in 1..Len(dir.mods[j].text) : IsDigit(dir.mods[j].text[n])

====
